---- MODULE Spec2Model ----
(***************************************************************************)
(* A model of wfs_input_generator: the InputFileGenerator front end        *)
(* (add_configuration, add_events, add_stations, the two filters, write,   *)
(* get_config_params) and the four backends found in backends/             *)
(* (ses3d_4_1, SPECFEM3D_CARTESIAN_9e2aad47d52f97, SPECFEM3D_GLOBE_CEM,    *)
(* SPECFEM3D_GLOBE_EPOS).                                                  *)
(*                                                                         *)
(* Python values are tagged records [t, n, s, l]:                          *)
(*   t = "int"   n the integer                                             *)
(*   t = "float" n the number of halves (n = 3 is 1.5)                     *)
(*   t = "bool"  n = 1 for True, 0 for False                               *)
(*   t = "str"   s the string                                              *)
(*   t = "list"  l the elements, t = "array" l the elements (numpy)        *)
(*   t = "none"  None                                                      *)
(* A dictionary is a function from its keys (strings) to values.           *)
(***************************************************************************)
EXTENDS Integers, Sequences, FiniteSets, TLC

\* ------------------------------------------------------------------------
\* Python values
\* ------------------------------------------------------------------------

IntV(i) == [t |-> "int", n |-> i, s |-> "", l |-> <<>>]
FloatV(h) == [t |-> "float", n |-> h, s |-> "", l |-> <<>>]
BoolV(b) == [t |-> "bool", n |-> IF b THEN 1 ELSE 0, s |-> "", l |-> <<>>]
StrV(str) == [t |-> "str", n |-> 0, s |-> str, l |-> <<>>]
ListV(elems) == [t |-> "list", n |-> 0, s |-> "", l |-> elems]
ArrayV(elems) == [t |-> "array", n |-> 1, s |-> "", l |-> elems]
\* numpy's zero-dimensional array around a scalar: it has no len() and cannot
\* be iterated.
Array0V(v) == [t |-> "array", n |-> 0, s |-> v.s, l |-> <<>>]
NoneV == [t |-> "none", n |-> 0, s |-> "", l |-> <<>>]

EmptyDict == [k \in {} |-> NoneV]

\* dict.update(other): the keys of other win.
DictUpdate(d, other) ==
    [k \in DOMAIN d \cup DOMAIN other |-> IF k \in DOMAIN other THEN other[k] ELSE d[k]]

\* d[k] = v
DictSet(d, k, v) == [x \in DOMAIN d \cup {k} |-> IF x = k THEN v ELSE d[x]]

\* The result of a call that may raise.
Ok(v) == [ok |-> TRUE, val |-> v]
Raised == [ok |-> FALSE, val |-> NoneV]

\* The decimal strings the model's inputs use, as Python parses them.
IntLiterals == [s \in {"0", "1", "4", "5"} |->
                  CASE s = "0" -> 0 [] s = "1" -> 1 [] s = "4" -> 4 [] s = "5" -> 5]
FloatLiterals == [s \in {"0.5", "1.5"} |-> CASE s = "0.5" -> 1 [] s = "1.5" -> 3]

DigitStr == <<"0", "1", "2", "3", "4", "5", "6", "7", "8", "9">>

RECURSIVE NatStr(_)
NatStr(n) == IF n < 10 THEN DigitStr[n + 1] ELSE NatStr(n \div 10) \o DigitStr[(n % 10) + 1]

IntStr(n) == IF n < 0 THEN "-" \o NatStr(-n) ELSE NatStr(n)

Abs(n) == IF n < 0 THEN -n ELSE n

\* Truncation toward zero of h halves.
TruncHalves(h) == IF h < 0 THEN -((-h) \div 2) ELSE h \div 2

FloatStr(h) ==
    (IF h < 0 THEN "-" ELSE "") \o NatStr(Abs(h) \div 2) \o (IF h % 2 = 0 THEN ".0" ELSE ".5")

\* The characters of the strings the model's inputs use (iterating a str).
Chars(s) ==
    CASE s = "" -> <<>>
      [] s = "1" -> <<"1">>
      [] s = "ab" -> <<"a", "b">>
      [] s = "abc" -> <<"a", "b", "c">>
      [] s = "hello" -> <<"h", "e", "l", "l", "o">>
      [] OTHER -> <<s>>

\* int(v)
PyInt(v) ==
    CASE v.t = "int" -> Ok(v)
      [] v.t = "bool" -> Ok(IntV(v.n))
      [] v.t = "float" -> Ok(IntV(TruncHalves(v.n)))
      [] v.t = "str" -> IF v.s \in DOMAIN IntLiterals THEN Ok(IntV(IntLiterals[v.s])) ELSE Raised
      [] OTHER -> Raised

\* float(v)
PyFloat(v) ==
    CASE v.t = "float" -> Ok(v)
      [] v.t = "int" -> Ok(FloatV(2 * v.n))
      [] v.t = "bool" -> Ok(FloatV(2 * v.n))
      [] v.t = "str" -> IF v.s \in DOMAIN IntLiterals THEN Ok(FloatV(2 * IntLiterals[v.s]))
                        ELSE IF v.s \in DOMAIN FloatLiterals THEN Ok(FloatV(FloatLiterals[v.s]))
                        ELSE Raised
      [] OTHER -> Raised

\* bool(v): never raises.
PyBool(v) ==
    CASE v.t = "bool" -> Ok(v)
      [] v.t \in {"int", "float"} -> Ok(BoolV(v.n # 0))
      [] v.t = "str" -> Ok(BoolV(v.s # ""))
      [] v.t = "list" -> Ok(BoolV(v.l # <<>>))
      [] v.t = "none" -> Ok(BoolV(FALSE))
      [] OTHER -> Raised

\* str(v): never raises.
PyStr(v) ==
    CASE v.t = "str" -> Ok(v)
      [] v.t = "int" -> Ok(StrV(IntStr(v.n)))
      [] v.t = "float" -> Ok(StrV(FloatStr(v.n)))
      [] v.t = "bool" -> Ok(StrV(IF v.n = 1 THEN "True" ELSE "False"))
      [] v.t = "none" -> Ok(StrV("None"))
      [] OTHER -> Ok(StrV("[...]"))

\* The items a Python iteration over v yields; Raised when v is not iterable.
PyIter(v) ==
    CASE v.t = "list" -> Ok(v.l)
      [] v.t = "array" -> IF v.n = 1 THEN Ok(v.l) ELSE Raised
      [] v.t = "str" -> Ok([i \in 1..Len(Chars(v.s)) |-> StrV(Chars(v.s)[i])])
      [] OTHER -> Raised

\* map(f, x) for a conversion f: raises when x is not iterable or f raises on
\* an element.
PyMap(f, v) ==
    LET items == PyIter(v)
        each(x) == IF f = "str" THEN PyStr(x) ELSE PyFloat(x)
    IN IF ~items.ok THEN Raised
       ELSE IF \E i \in 1..Len(items.val) : ~each(items.val[i]).ok THEN Raised
       ELSE Ok(ListV([i \in 1..Len(items.val) |-> each(items.val[i]).val]))

\* numpy.array([v]): always a new array around v.
NpArrayAround(v) == Ok(ArrayV(<<v>>))

\* numpy.array(v): sequences become one-dimensional arrays, everything else
\* a zero-dimensional one.
NpArray(v) ==
    CASE v.t = "array" -> Ok(v)
      [] v.t = "list" -> Ok(ArrayV(v.l))
      [] OTHER -> Ok(Array0V(v))

\* The conversion functions the schemas name.
Convert(fct, v) ==
    CASE fct = "int" -> PyInt(v)
      [] fct = "float" -> PyFloat(v)
      [] fct = "bool" -> PyBool(v)
      [] fct = "str" -> PyStr(v)
      [] fct = "map_str" -> PyMap("str", v)
      [] fct = "map_float" -> PyMap("float", v)
      [] fct = "np.array" -> NpArray(v)

\* ------------------------------------------------------------------------
\* The backends' configuration schemas.  A schema is listed in the order of
\* the source; each backend is modelled by the entries its write function
\* reads or rewrites by name plus entries of every conversion kind it uses
\* (the remaining entries are int, float, bool and str entries that only
\* reach the Par_file template).
\* ------------------------------------------------------------------------

Req(name, fct) == [fct |-> fct, name |-> name]
Def(name, default, fct) == [fct |-> fct, name |-> name, default |-> default]

Ses3dRequired ==
    << Req("output_folder", "str"),
       Req("number_of_time_steps", "int"),
       Req("mesh_min_latitude", "float"),
       Req("mesh_max_latitude", "float"),
       Req("mesh_min_longitude", "float"),
       Req("mesh_max_longitude", "float"),
       Req("source_time_function", "np.array") >>

Ses3dDefault ==
    << Def("event_tag", StrV("1"), "str"),
       Def("is_dissipative", BoolV(TRUE), "bool"),
       Def("stf_header", ListV(<<StrV("STF written by the wfs_input_generator"),
                                 StrV("    https://github.com/krischer/wfs_input_generator"),
                                 StrV("The original source of the STF is not known to the"),
                                 StrV("input generator module.")>>), "map_str"),
       Def("simulation_type", StrV("normal simulation"), "str"),
       Def("adjoint_forward_wavefield_output_folder", StrV(""), "str"),
       Def("rotation_angle_in_degree", FloatV(0), "float"),
       Def("rotation_axis", ListV(<<FloatV(0), FloatV(0), FloatV(2)>>), "map_float") >>

CartesianRequired ==
    << Req("NPROC", "int"),
       Req("NSTEP", "int"),
       Req("DT", "float"),
       Req("SIMULATION_TYPE", "int") >>

CartesianDefault ==
    << Def("NOISE_TOMOGRAPHY", IntV(0), "int"),
       Def("SAVE_FORWARD", BoolV(FALSE), "bool"),
       Def("SUPPRESS_UTM_PROJECTION", BoolV(TRUE), "bool"),
       Def("MODEL", StrV("default"), "str"),
       Def("HDUR_MOVIE", FloatV(0), "float") >>

GlobeCemRequired ==
    << Req("NPROC_XI", "int"),
       Req("RECORD_LENGTH_IN_MINUTES", "float"),
       Req("SIMULATION_TYPE", "int"),
       Req("MODEL", "str") >>

GlobeCemDefault ==
    << Def("NOISE_TOMOGRAPHY", IntV(0), "int"),
       Def("SAVE_FORWARD", BoolV(FALSE), "bool"),
       Def("HDUR_MOVIE", FloatV(0), "float"),
       Def("OUTPUT_SEISMOS_FORMAT", StrV("SAC_BINARY"), "str"),
       Def("SOURCE_TIME_FUNCTION", ListV(<<>>), "np.array") >>

GlobeEposRequired ==
    << Req("SIMULATION_TYPE", "int"),
       Req("NPROC", "int"),
       Req("NSTEP", "int"),
       Req("DT", "float") >>

GlobeEposDefault ==
    << Def("NOISE_TOMOGRAPHY", IntV(0), "int"),
       Def("SAVE_FORWARD", BoolV(FALSE), "bool"),
       Def("SUPPRESS_UTM_PROJECTION", BoolV(TRUE), "bool"),
       Def("MODEL", StrV("default"), "str"),
       Def("HDUR_MOVIE", FloatV(0), "float") >>

\* __find_write_scripts: the registry, one entry per backends/write_*.py,
\* named by the file name without its "write_" prefix.
WriteFunctions ==
    [f \in {"ses3d_4_1", "SPECFEM3D_CARTESIAN_9e2aad47d52f97",
            "SPECFEM3D_GLOBE_CEM", "SPECFEM3D_GLOBE_EPOS"} |->
        CASE f = "ses3d_4_1" ->
               [required_config |-> Ses3dRequired, default_config |-> Ses3dDefault]
          [] f = "SPECFEM3D_CARTESIAN_9e2aad47d52f97" ->
               [required_config |-> CartesianRequired, default_config |-> CartesianDefault]
          [] f = "SPECFEM3D_GLOBE_CEM" ->
               [required_config |-> GlobeCemRequired, default_config |-> GlobeCemDefault]
          [] f = "SPECFEM3D_GLOBE_EPOS" ->
               [required_config |-> GlobeEposRequired, default_config |-> GlobeEposDefault]]

Formats == DOMAIN WriteFunctions

\* dict.iteritems(): the order in which a dictionary yields its entries is
\* fixed by the interpreter build, not by the source; seed picks it (the
\* source order rotated by seed places).
IterItems(entries, seed) ==
    [i \in 1..Len(entries) |-> entries[((i - 1 + seed) % Len(entries)) + 1]]


\* ------------------------------------------------------------------------
\* The generator's state
\* ------------------------------------------------------------------------

VARIABLES
    config,          \* self.config: the caller's configuration
    events,          \* self._events: a list of event dictionaries
    stations,        \* self._stations: a list of station dictionaries
    station_filter,  \* self.__station_filter: None or a list of patterns
    event_filter,    \* self.__event_filter: None or a list of event ids
    iterSeed,        \* the interpreter's dictionary iteration order
    last,            \* the last call: what it was given and how it ended
    prev,            \* the write before it, when last repeats it unmodified or
                     \* sets the event filter
    disk             \* the file system: what each path holds

vars == <<config, events, stations, station_filter, event_filter, iterSeed, last, prev, disk>>

\* The generator proper: what InputFileGenerator's attributes hold.
Generator ==
    [config |-> config, events |-> events, stations |-> stations,
     station_filter |-> station_filter, event_filter |-> event_filter]

\* unique_list(items): the first occurrence of every item, in order.
RECURSIVE UniqueFrom(_, _, _)
UniqueFrom(items, i, output) ==
    IF i > Len(items) THEN output
    ELSE UniqueFrom(items, i + 1,
                    IF \E j \in 1..Len(output) : output[j] = items[i]
                    THEN output ELSE Append(output, items[i]))

unique_list(items) == UniqueFrom(items, 1, <<>>)

\* filter(filt, items), keep[i] being filt(items[i])
RECURSIVE FilterFrom(_, _, _)
FilterFrom(keep, items, i) ==
    IF i > Len(items) THEN <<>>
    ELSE (IF keep[i] THEN <<items[i]>> ELSE <<>>) \o FilterFrom(keep, items, i + 1)

PyFilter(keep, items) == FilterFrom(keep, items, 1)


\* ------------------------------------------------------------------------
\* add_configuration
\* ------------------------------------------------------------------------

\* InputFileGenerator.__init__
NoGenerator ==
    [config |-> EmptyDict, events |-> <<>>, stations |-> <<>>,
     station_filter |-> NoneV, event_filter |-> NoneV]

\* A file system without any path.
EmptyDisk == [p \in {} |-> ""]

\* The record of a call other than write: pre is the generator before the
\* call and given the call's argument, for the calls the properties below
\* look back on; pre_disk is the file system before a write.
CallRecord(op, raised) ==
    [op |-> op, raised |-> raised, format |-> "", exc |-> IF raised THEN "ValueError" ELSE "",
     mentions |-> {}, invoked |-> FALSE, files |-> EmptyDict,
     pre |-> NoGenerator, handed_config |-> EmptyDict, handed_events |-> <<>>,
     handed_stations |-> <<>>, attempted |-> {}, final_config |-> EmptyDict,
     work |-> EmptyDict, added |-> <<>>, given |-> <<>>, pre_disk |-> EmptyDisk]

NoCall == [op |-> "none", raised |-> FALSE, format |-> "", files |-> EmptyDict]

\* config.__dict__.update(config)
AddConfiguration(inputs) ==
    \E i \in 1..Len(inputs) :
        /\ config' = DictUpdate(config, inputs[i])
        /\ last' = CallRecord("add_configuration", FALSE)
        /\ prev' = NoCall
        /\ UNCHANGED <<events, stations, station_filter, event_filter, iterSeed, disk>>

\* ------------------------------------------------------------------------
\* add_events
\* ------------------------------------------------------------------------

TimeV(h) == [t |-> "time", n |-> h, s |-> "", l |-> <<>>]

\* obspy.UTCDateTime(v): numbers are seconds since the epoch, strings are
\* parsed (the model's inputs use one well-formed date string).
UTCDateTime(v) ==
    CASE v.t = "time" -> Ok(v)
      [] v.t = "int" -> Ok(TimeV(2 * v.n))
      [] v.t = "float" -> Ok(TimeV(v.n))
      [] v.t = "str" -> IF v.s = "1970-01-01T00:00:05" THEN Ok(TimeV(10)) ELSE Raised
      [] OTHER -> Raised

required_keys ==
    <<"latitude", "longitude", "depth_in_km", "origin_time", "m_rr", "m_tt", "m_pp",
      "m_rt", "m_rp", "m_tp">>

FloatKeys ==
    {"latitude", "longitude", "depth_in_km", "m_rr", "m_tt", "m_pp", "m_rt", "m_rp", "m_tp"}

\* A dictionary branch that takes a key with a false value (zero, the empty
\* string, None) for an absent one.
EventFromDictTruthy(d) ==
    IF \E i \in 1..Len(required_keys) :
           required_keys[i] \notin DOMAIN d \/ PyBool(d[required_keys[i]]).val.n = 0
    THEN Raised
    ELSE IF \E k \in FloatKeys : ~PyFloat(d[k]).ok THEN Raised
    ELSE IF ~UTCDateTime(d["origin_time"]).ok THEN Raised
    ELSE Ok([k \in {required_keys[i] : i \in 1..Len(required_keys)} \cup {"description"} |->
               IF k = "description"
               THEN (IF "description" \in DOMAIN d /\ d["description"].t # "none"
                     THEN PyStr(d["description"]).val ELSE NoneV)
               ELSE IF k = "origin_time" THEN UTCDateTime(d[k]).val
               ELSE PyFloat(d[k]).val])

\* The dictionary branch of add_events: the event dictionary stored for the
\* caller's dictionary d, or Raised.
EventFromDict(d) ==
    IF \E i \in 1..Len(required_keys) : required_keys[i] \notin DOMAIN d THEN Raised
    ELSE IF \E k \in FloatKeys : ~PyFloat(d[k]).ok THEN Raised
    ELSE IF ~UTCDateTime(d["origin_time"]).ok THEN Raised
    ELSE Ok([k \in {required_keys[i] : i \in 1..Len(required_keys)} \cup {"description"} |->
               IF k = "description"
               THEN (IF "description" \in DOMAIN d /\ d["description"].t # "none"
                     THEN PyStr(d["description"]).val ELSE NoneV)
               ELSE IF k = "origin_time" THEN UTCDateTime(d[k]).val
               ELSE PyFloat(d[k]).val])

RECURSIVE JoinFrom(_, _)
JoinFrom(texts, i) ==
    IF i > Len(texts) THEN ""
    ELSE IF i = Len(texts) THEN texts[i]
    ELSE texts[i] \o ", " \o JoinFrom(texts, i + 1)

\* _parse_event(event) for an obspy Event object: the dictionary appended to
\* self._events, or Raised.  origin and tensor are dictionaries whose values
\* are None where the document gives none; depth is in metres (a multiple of
\* 500 in the model, so that depth / 1000.0 is a number of halves).
ParseEvent(event) ==
    IF event.origins = <<>> THEN Raised
    ELSE IF event.focal_mechanisms = <<>> THEN Raised
    ELSE LET origin == event.origins[1]
             mt == event.focal_mechanisms[1]
         IN IF \E k \in {"latitude", "longitude", "depth", "time"} : origin[k].t = "none"
            THEN Raised
            ELSE IF DOMAIN mt = {} THEN Raised
            ELSE IF \E k \in DOMAIN mt : mt[k].t = "none" THEN Raised
            ELSE Ok([k \in {required_keys[i] : i \in 1..Len(required_keys)}
                             \cup {"description", "_event_id"} |->
                       CASE k = "latitude" -> origin["latitude"]
                         [] k = "longitude" -> origin["longitude"]
                         [] k = "depth_in_km" -> FloatV(origin["depth"].n \div 500)
                         [] k = "origin_time" -> origin["time"]
                         [] k = "_event_id" -> StrV(event.resource_id)
                         [] k = "description" ->
                              IF event.event_descriptions # <<>>
                              THEN StrV(JoinFrom(event.event_descriptions, 1)) ELSE NoneV
                         [] OTHER -> mt[k]])

\* The loop of add_events over the items of its argument: the list
\* self._events after item i and the items that follow it, and whether an
\* item raised (which ends the call on the spot).
RECURSIVE AddEventsLoop(_, _, _)
AddEventsLoop(items, i, evs) ==
    IF i > Len(items) THEN [events |-> unique_list(evs), raised |-> FALSE]
    ELSE LET ev == CASE items[i].kind = "dict" -> EventFromDict(items[i].d)
                     [] items[i].kind = "event" -> ParseEvent(items[i])
                     [] OTHER -> Raised
         IN IF ~ev.ok THEN [events |-> evs, raised |-> TRUE]
            ELSE AddEventsLoop(items, i + 1, Append(evs, ev.val))

\* How long the event list may get (a call that raises leaves the items it
\* appended before, so the list can grow without end).
MaxEvents == 3

AddEvents(inputs) ==
    \E i \in 1..Len(inputs) :
        LET r == AddEventsLoop(inputs[i], 1, events) IN
        /\ Len(events) + Len(inputs[i]) <= MaxEvents
        /\ events' = r.events
        /\ last' = [CallRecord("add_events", r.raised)
                      EXCEPT !.pre = Generator, !.given = inputs[i]]
        /\ prev' = NoCall
        /\ UNCHANGED <<config, stations, station_filter, event_filter, iterSeed, disk>>


\* ------------------------------------------------------------------------
\* add_stations
\* ------------------------------------------------------------------------

\* The station ids of the model in ascending (string) order.
IdOrder == <<"A.B.C", "KO.ADVT", "KO.AFSR", "NODOT">>

IdRank(id) == CHOOSE i \in 1..Len(IdOrder) : IdOrder[i] = id

\* The dictionary branch of add_stations: the entry put into all_stations
\* for the caller's dictionary d, or Raised.
StationFromDict(d) ==
    IF \E k \in {"latitude", "longitude", "elevation_in_m", "id"} : k \notin DOMAIN d THEN Raised
    ELSE IF \E k \in {"latitude", "longitude", "elevation_in_m"} : ~PyFloat(d[k]).ok THEN Raised
    ELSE LET withDepth == "local_depth_in_m" \in DOMAIN d /\ PyFloat(d["local_depth_in_m"]).ok
         IN Ok([k \in {"latitude", "longitude", "elevation_in_m", "id"}
                        \cup (IF withDepth THEN {"local_depth_in_m"} ELSE {}) |->
                  IF k = "id" THEN PyStr(d[k]).val ELSE PyFloat(d[k]).val])

\* The exception float(v) raises when it rejects v: ValueError for a string
\* that spells no number, TypeError for a value of another type.
FloatError(v) == IF v.t = "str" THEN "ValueError" ELSE "TypeError"

\* The exception the dictionary branch raises on a dictionary d it rejects.
StationError(d) ==
    IF \E k \in {"latitude", "longitude", "elevation_in_m", "id"} : k \notin DOMAIN d
    THEN "ValueError"
    ELSE IF ~PyFloat(d["latitude"]).ok THEN FloatError(d["latitude"])
    ELSE IF ~PyFloat(d["longitude"]).ok THEN FloatError(d["longitude"])
    ELSE FloatError(d["elevation_in_m"])

\* A loop that leaves out the items it cannot use.
RECURSIVE AddStationsLoopSkipping(_, _, _)
AddStationsLoopSkipping(items, i, all_stations) ==
    IF i > Len(items) THEN Ok(all_stations)
    ELSE LET stat == IF items[i].kind = "dict" THEN StationFromDict(items[i].d) ELSE Raised
         IN IF ~stat.ok THEN AddStationsLoopSkipping(items, i + 1, all_stations)
            ELSE AddStationsLoopSkipping(items, i + 1,
                                 [id \in DOMAIN all_stations \cup {stat.val["id"].s} |->
                                    IF id = stat.val["id"].s THEN stat.val ELSE all_stations[id]])

\* The loop of add_stations: all_stations after item i and the items that
\* follow it (a dictionary keyed by station id), or Raised.
RECURSIVE AddStationsLoop(_, _, _)
AddStationsLoop(items, i, all_stations) ==
    IF i > Len(items) THEN Ok(all_stations)
    ELSE LET stat == IF items[i].kind = "dict" THEN StationFromDict(items[i].d) ELSE Raised
         IN IF ~stat.ok THEN Raised
            ELSE AddStationsLoop(items, i + 1,
                                 [id \in DOMAIN all_stations \cup {stat.val["id"].s} |->
                                    IF id = stat.val["id"].s THEN stat.val ELSE all_stations[id]])

\* dict.values(): the values in the dictionary's iteration order.
RECURSIVE SortedIds(_)
SortedIds(ids) ==
    IF ids = {} THEN <<>>
    ELSE LET m == CHOOSE x \in ids : \A y \in ids : IdRank(x) <= IdRank(y)
         IN <<m>> \o SortedIds(ids \ {m})

DictValues(d, seed) ==
    LET ids == IterItems(SortedIds(DOMAIN d), seed) IN [i \in 1..Len(ids) |-> d[ids[i]]]

\* __add_stations(stations): self._stations afterwards.
NormalizeStation(station_item) ==
    [k \in {"latitude", "longitude", "elevation_in_m", "id", "local_depth_in_m"} |->
       IF k = "id" THEN PyStr(station_item[k]).val
       ELSE IF k = "local_depth_in_m"
            THEN (IF k \in DOMAIN station_item /\ PyFloat(station_item[k]).ok
                  THEN PyFloat(station_item[k]).val ELSE FloatV(0))
       ELSE PyFloat(station_item[k]).val]

\* The exception of the first item add_stations rejects, from item i on.
RECURSIVE AddStationsError(_, _)
AddStationsError(items, i) ==
    IF i > Len(items) THEN ""
    ELSE IF items[i].kind # "dict" THEN "ValueError"
    ELSE IF ~StationFromDict(items[i].d).ok THEN StationError(items[i].d)
    ELSE AddStationsError(items, i + 1)

AddStationsHelper(old, new) ==
    unique_list(old \o [i \in 1..Len(new) |-> NormalizeStation(new[i])])

AddStations(inputs) ==
    \E i \in 1..Len(inputs) :
        LET r == AddStationsLoop(inputs[i], 1, [id \in {} |-> EmptyDict]) IN
        /\ stations' = IF r.ok THEN AddStationsHelper(stations, DictValues(r.val, iterSeed))
                       ELSE stations
        /\ last' = [CallRecord("add_stations", ~r.ok)
                      EXCEPT !.exc = IF r.ok THEN "" ELSE AddStationsError(inputs[i], 1),
                             !.pre = Generator,
                             !.added = IF r.ok
                                       THEN AddStationsHelper(<<>>, DictValues(r.val, iterSeed))
                                       ELSE <<>>,
                             !.given = inputs[i]]
        /\ prev' = NoCall
        /\ UNCHANGED <<config, events, station_filter, event_filter, iterSeed, disk>>

\* ------------------------------------------------------------------------
\* The filters
\* ------------------------------------------------------------------------

\* fnmatch.fnmatch(id, pattern) for the patterns of the model.
Fnmatch(id, pattern) ==
    CASE pattern = "*" -> TRUE
      [] pattern = "KO.*" -> id \in {"KO.ADVT", "KO.AFSR"}
      [] pattern = "*.AFSR" -> id = "KO.AFSR"
      [] pattern = "A.*" -> id = "A.B.C"
      [] OTHER -> id = pattern

\* str.lower() for the event ids of the model.
Lower(str) ==
    CASE str = "SMI:EV1" -> "smi:ev1"
      [] str = "SMI:EV2" -> "smi:ev2"
      [] OTHER -> str

\* bool(filter): None and the empty list are false.
FilterIsSet(f) == f.t = "list" /\ f.l # <<>>

\* A filter function that looks at the first pattern only.
StationPassesFirstPattern(station) ==
    Fnmatch(station["id"].s, station_filter.l[1].s)

StationPasses(station) ==
    \E i \in 1..Len(station_filter.l) : Fnmatch(station["id"].s, station_filter.l[i].s)

filtered_stations ==
    IF ~FilterIsSet(station_filter) THEN stations
    ELSE PyFilter([i \in 1..Len(stations) |-> StationPasses(stations[i])],
                  stations)

\* A filter function that compares the ids as they are written.
EventPassesCaseSensitive(event) ==
    /\ "_event_id" \in DOMAIN event
    /\ \E i \in 1..Len(event_filter.l) : event["_event_id"].s = event_filter.l[i].s

EventPasses(event) ==
    /\ "_event_id" \in DOMAIN event
    /\ \E i \in 1..Len(event_filter.l) :
           Lower(event["_event_id"].s) = Lower(event_filter.l[i].s)

filtered_events ==
    IF ~FilterIsSet(event_filter) THEN events
    ELSE PyFilter([i \in 1..Len(events) |-> EventPasses(events[i])], events)

\* The setters: the value must be None or iterable.
SetStationFilter(inputs) ==
    \E i \in 1..Len(inputs) :
        /\ station_filter' = IF inputs[i].t \in {"none", "list"} THEN inputs[i] ELSE station_filter
        /\ last' = [CallRecord("station_filter", inputs[i].t \notin {"none", "list"})
                      EXCEPT !.exc = IF inputs[i].t \notin {"none", "list"}
                                     THEN "TypeError" ELSE "",
                             !.pre = Generator, !.given = <<inputs[i]>>]
        /\ prev' = NoCall
        /\ UNCHANGED <<config, events, stations, event_filter, iterSeed, disk>>

SetEventFilter(inputs) ==
    \E i \in 1..Len(inputs) :
        /\ event_filter' = IF inputs[i].t \in {"none", "list"} THEN inputs[i] ELSE event_filter
        /\ last' = [CallRecord("event_filter", inputs[i].t \notin {"none", "list"})
                      EXCEPT !.exc = IF inputs[i].t \notin {"none", "list"}
                                     THEN "TypeError" ELSE "",
                             !.pre = Generator, !.given = <<inputs[i]>>]
        /\ prev' = IF last.op = "write"
                   THEN [op |-> "write", raised |-> last.raised, format |-> last.format,
                         files |-> last.files]
                   ELSE NoCall
        /\ UNCHANGED <<config, events, stations, station_filter, iterSeed, disk>>


\* ------------------------------------------------------------------------
\* The backends.  A file's content is the sequence of its lines (the text
\* split at its newline characters); a backend's result is what it returns
\* or raises together with the configuration object as it leaves it.
\* ------------------------------------------------------------------------

Returned(files, cfg) == [config |-> cfg, raised |-> FALSE, exc |-> "", files |-> files]
Raises(exc, cfg) == [config |-> cfg, raised |-> TRUE, exc |-> exc, files |-> EmptyDict]

\* "%e" % x, "{:.6f}".format(x) and the like: the text of a number.
IsNumber(v) == v.t \in {"int", "float", "bool"}
NumStr(v) == IF v.t \in {"float", "time"} THEN FloatStr(v.n) ELSE FloatStr(2 * v.n)

\* "{KEY}".format(KEY=v)
FormatStr(v) == PyStr(v).val.s

\* A Fortran boolean that is .false. whatever the value.
fboolFalse(value) == StrV(".false.")

\* fbool(value)
fbool(value) == StrV(IF PyBool(value).val.n = 1 THEN ".true." ELSE ".false.")

\* id.split(".")
SplitDot(id) ==
    CASE id = "KO.ADVT" -> <<"KO", "ADVT">>
      [] id = "KO.AFSR" -> <<"KO", "AFSR">>
      [] id = "A.B.C" -> <<"A", "B", "C">>
      [] OTHER -> <<id>>

\* 2.0 / 3.0 * math.log10(M_0) - 6.0 printed with one decimal, as a text
\* that names M_0 by the sum of squares it is the root of.
MagnitudeStr(event) ==
    "Mw(" \o NatStr(event["m_rr"].n * event["m_rr"].n + event["m_tt"].n * event["m_tt"].n
                    + event["m_pp"].n * event["m_pp"].n) \o ")"

\* math.log10(M_0) raises ValueError (math domain error) for M_0 = 0.
MagnitudeDefined(event) ==
    event["m_rr"].n * event["m_rr"].n + event["m_tt"].n * event["m_tt"].n
        + event["m_pp"].n * event["m_pp"].n # 0

\* The CMTSOLUTION file of the SPECFEM backends.
CmtSolution(event) ==
    << "PDE " \o NumStr(event["origin_time"]) \o " " \o NumStr(event["latitude"]) \o " "
          \o NumStr(event["longitude"]) \o " " \o NumStr(event["depth_in_km"]) \o " "
          \o MagnitudeStr(event) \o " " \o MagnitudeStr(event) \o " "
          \o NumStr(event["origin_time"]) \o "_" \o MagnitudeStr(event),
       "event name:      0000000",
       "time shift:       0.0000",
       "half duration:    0.0000",
       "latitude:       " \o NumStr(event["latitude"]),
       "longitude:      " \o NumStr(event["longitude"]),
       "depth:" \o NumStr(event["depth_in_km"]),
       "Mrr:         " \o NumStr(event["m_rr"]) \o "e+07",
       "Mtt:         " \o NumStr(event["m_tt"]) \o "e+07",
       "Mpp:         " \o NumStr(event["m_pp"]) \o "e+07",
       "Mrt:         " \o NumStr(event["m_rt"]) \o "e+07",
       "Mrp:         " \o NumStr(event["m_rp"]) \o "e+07",
       "Mtp:         " \o NumStr(event["m_tp"]) \o "e+07" >>

\* One line of the STATIONS file.
StationLine(station) ==
    SplitDot(station["id"].s)[2] \o " " \o SplitDot(station["id"].s)[1] \o " "
        \o NumStr(station["latitude"]) \o " " \o NumStr(station["longitude"]) \o " "
        \o NumStr(station["elevation_in_m"]) \o " " \o NumStr(station["local_depth_in_m"])

\* A backend that only refuses to work without any event.
NoEventAtAll(evs) == Len(evs) = 0

\* if len(events) != 1: raise ...
WrongEventCount(evs) == Len(evs) # 1

\* The part the three SPECFEM backends share: the event count check, the
\* magnitude, CMTSOLUTION and STATIONS, added to the files made so far.
SpecfemFiles(output_files, par_file, cfg, evs, stats) ==
    IF WrongEventCount(evs) THEN Raises("NotImplementedError", cfg)
    ELSE IF ~MagnitudeDefined(evs[1]) THEN Raises("ValueError", cfg)
    ELSE IF \E i \in 1..Len(stats) : Len(SplitDot(stats[i]["id"].s)) < 2
         THEN Raises("IndexError", cfg)
    ELSE Returned([f \in DOMAIN output_files \cup {"Par_file", "CMTSOLUTION", "STATIONS"} |->
                     CASE f = "Par_file" -> par_file
                       [] f = "CMTSOLUTION" -> CmtSolution(evs[1])
                       [] f = "STATIONS" -> [i \in 1..Len(stats) |-> StationLine(stats[i])]
                       [] OTHER -> output_files[f]], cfg)

\* template.format(**c): one line per placeholder of the template, in the
\* template's order; KeyError when c lacks a placeholder.
ParFile(template_keys, c) ==
    [i \in 1..Len(template_keys) |-> template_keys[i] \o " = " \o FormatStr(c[template_keys[i]])]

\* for key, value in config.iteritems(): if isinstance(value, bool): ...
FortranBools(c) == [k \in DOMAIN c |-> IF c[k].t = "bool" THEN fbool(c[k]) ELSE c[k]]

CartesianTemplate ==
    <<"SIMULATION_TYPE", "NOISE_TOMOGRAPHY", "SAVE_FORWARD", "SUPPRESS_UTM_PROJECTION",
      "NPROC", "NSTEP", "DT", "MODEL", "HDUR_MOVIE">>

\* backends/write_SPECFEM3D_CARTESIAN_9e2aad47d52f97.py: write
WriteCartesian(cfg, evs, stats) ==
    LET c == FortranBools(cfg) IN
    IF \E i \in 1..Len(CartesianTemplate) : CartesianTemplate[i] \notin DOMAIN c
    THEN Raises("KeyError", cfg)
    ELSE SpecfemFiles(EmptyDict, ParFile(CartesianTemplate, c), cfg, evs, stats)


\* The placeholders of specfem_globe_cem_par_file.template and of
\* specfem_globe_epos_par_file.template: the schema's keys and, for CEM, the
\* keys write derives.
GlobeCemTemplate ==
    <<"SIMULATION_TYPE", "NOISE_TOMOGRAPHY", "SAVE_FORWARD", "NPROC_XI", "MODEL",
      "RECORD_LENGTH_IN_MINUTES", "HDUR_MOVIE", "OUTPUT_SEISMOS_ASCII_TEXT",
      "OUTPUT_SEISMOS_SAC_ALPHANUM", "OUTPUT_SEISMOS_SAC_BINARY", "OUTPUT_SEISMOS_ASDF",
      "EXTERNAL_SOURCE_TIME_FUNCTION">>

GlobeEposTemplate ==
    <<"SIMULATION_TYPE", "NOISE_TOMOGRAPHY", "SAVE_FORWARD", "SUPPRESS_UTM_PROJECTION",
      "NPROC", "NSTEP", "DT", "MODEL", "HDUR_MOVIE">>

possible_formats == {"ASCII", "SAC_ALPHANUM", "SAC_BINARY", "ASDF"}

\* The lines ["%e" % _i for _i in array].
StfLines(array) == [i \in 1..Len(array.l) |-> NumStr(array.l[i])]

\* backends/write_SPECFEM3D_GLOBE_CEM.py: write
WriteGlobeCem(cfg, evs, stats) ==
    LET f == cfg["OUTPUT_SEISMOS_FORMAT"].s
        stf == cfg["SOURCE_TIME_FUNCTION"]
        c1 == DictUpdate(cfg,
                [k \in {"OUTPUT_SEISMOS_ASCII_TEXT", "OUTPUT_SEISMOS_SAC_ALPHANUM",
                        "OUTPUT_SEISMOS_SAC_BINARY", "OUTPUT_SEISMOS_ASDF"} |->
                   CASE k = "OUTPUT_SEISMOS_ASCII_TEXT" -> BoolV(f = "ASCII")
                     [] k = "OUTPUT_SEISMOS_SAC_ALPHANUM" -> BoolV(f = "SAC_ALPHANUM")
                     [] k = "OUTPUT_SEISMOS_SAC_BINARY" -> BoolV(f = "SAC_BINARY")
                     [] k = "OUTPUT_SEISMOS_ASDF" -> BoolV(f = "ASDF")])
        c2 == DictSet(c1, "EXTERNAL_SOURCE_TIME_FUNCTION", BoolV(stf.l # <<>>))
        c3 == FortranBools(c2)
        output_files == IF stf.l # <<>> THEN [n \in {"STF"} |-> StfLines(stf)] ELSE EmptyDict
    IN IF f \notin possible_formats THEN Raises("ValueError", cfg)
       ELSE IF stf.n = 0 THEN Raises("TypeError", c1)
       ELSE IF \E i \in 1..Len(stf.l) : ~IsNumber(stf.l[i]) THEN Raises("TypeError", c2)
       ELSE IF \E i \in 1..Len(GlobeCemTemplate) : GlobeCemTemplate[i] \notin DOMAIN c3
            THEN Raises("KeyError", c3)
       ELSE SpecfemFiles(output_files, ParFile(GlobeCemTemplate, c3), c3, evs, stats)

\* backends/write_SPECFEM3D_GLOBE_EPOS.py: write
WriteGlobeEpos(cfg, evs, stats) ==
    LET c == FortranBools(cfg) IN
    IF \E i \in 1..Len(GlobeEposTemplate) : GlobeEposTemplate[i] \notin DOMAIN c
    THEN Raises("KeyError", c)
    ELSE SpecfemFiles(EmptyDict, ParFile(GlobeEposTemplate, c), c, evs, stats)


\* rotations.lat2colat(lat): 90 - lat, in halves of a degree.
lat2colat(lat) == FloatV(180 - lat.n)

\* rotations.rotate_lat_lon(lat, lng, axis, angle) for the polar axis
\* [0, 0, 1], the only axis the model's inputs use: the longitude moves by
\* the angle.  rotations.rotate_moment_tensor leaves the components of a
\* tensor given in the local r, theta, phi basis unchanged under it.
rotate_lat_lon(lat, lng, axis, angle) == <<lat, FloatV(lng.n + angle.n)>>

\* A test that leaves the bounds themselves out of the mesh.
is_strictly_in_bounds(lat, lng, cfg) ==
    /\ cfg["mesh_min_latitude"].n < lat.n /\ lat.n < cfg["mesh_max_latitude"].n
    /\ cfg["mesh_min_longitude"].n < lng.n /\ lng.n < cfg["mesh_max_longitude"].n

\* _is_in_bounds(lat, lng, mesh)
is_in_bounds(lat, lng, cfg) ==
    /\ cfg["mesh_min_latitude"].n <= lat.n /\ lat.n <= cfg["mesh_max_latitude"].n
    /\ cfg["mesh_min_longitude"].n <= lng.n /\ lng.n <= cfg["mesh_max_longitude"].n

sim_map == [k \in {"normal simulation", "adjoint forward", "adjoint reverse"} |->
              CASE k = "normal simulation" -> 0 [] k = "adjoint forward" -> 1
                [] k = "adjoint reverse" -> 2]

\* str.strip() for the header lines of the model.
Strip(str) ==
    IF str = "    https://github.com/krischer/wfs_input_generator"
    THEN "https://github.com/krischer/wfs_input_generator" ELSE str

\* Where a station or the event lies after the rotation, if any.
Ses3dPosition(cfg, lat, lng) ==
    IF cfg["rotation_angle_in_degree"].n # 0
    THEN rotate_lat_lon(lat, lng, cfg["rotation_axis"], cfg["rotation_angle_in_degree"])
    ELSE <<lat, lng>>

\* "{0:_<w}".format(str): str filled with underscores up to w characters.
RECURSIVE Underscores(_)
Underscores(w) == IF w <= 0 THEN "" ELSE "_" \o Underscores(w - 1)

PadRight(str, w) == str \o Underscores(w - Len(str))

\* The two recfile lines of a station.
RecfilePart(cfg, station) ==
    LET pos == Ses3dPosition(cfg, station["latitude"], station["longitude"])
        d == -(station["elevation_in_m"].n - station["local_depth_in_m"].n)
    IN << PadRight(SplitDot(station["id"].s)[1], 2) \o "."
              \o PadRight(SplitDot(station["id"].s)[2], 5) \o ".___",
          NumStr(lat2colat(pos[1])) \o " " \o NumStr(pos[2]) \o " "
              \o FloatStr(IF d < 0 THEN 0 ELSE d) >>

RECURSIVE RecfileParts(_, _, _)
RecfileParts(cfg, stats, i) ==
    IF i > Len(stats) THEN <<>>
    ELSE LET pos == Ses3dPosition(cfg, stats[i]["latitude"], stats[i]["longitude"])
         IN (IF is_in_bounds(pos[1], pos[2], cfg) THEN RecfilePart(cfg, stats[i]) ELSE <<>>)
                \o RecfileParts(cfg, stats, i + 1)

\* The files of the ses3d_4_1 backend before the final newlines.
Ses3dFiles(cfg, event, stats, simulation_type) ==
    LET pos == Ses3dPosition(cfg, event["latitude"], event["longitude"])
        parts == RecfileParts(cfg, stats, 1)
        header == [i \in 1..Len(cfg["stf_header"].l) |-> "# " \o Strip(cfg["stf_header"].l[i].s)]
        fill == [i \in 1..(4 - Len(header)) |-> "#"]
    IN [f \in {"setup", "event_" \o cfg["event_tag"].s, "event_list",
               "recfile_" \o cfg["event_tag"].s, "relax", "stf"} |->
          CASE f = "setup" ->
                 << "MODEL", NumStr(lat2colat(cfg["mesh_max_latitude"])),
                    NumStr(lat2colat(cfg["mesh_min_latitude"])),
                    NumStr(cfg["mesh_min_longitude"]), NumStr(cfg["mesh_max_longitude"]),
                    IF cfg["is_dissipative"].n = 1 THEN "1" ELSE "0", "1",
                    "ADJOINT PARAMETERS", IntStr(simulation_type),
                    cfg["adjoint_forward_wavefield_output_folder"].s >>
            [] f = "event_list" -> << "1", cfg["event_tag"].s >>
            [] f = "relax" -> << "RELAXATION TIMES [s]", "WEIGHTS OF RELAXATION MECHANISMS" >>
            [] f = "stf" -> header \o fill \o StfLines(cfg["source_time_function"])
            [] f = "event_" \o cfg["event_tag"].s ->
                 << "SIMULATION PARAMETERS", IntStr(cfg["number_of_time_steps"].n),
                    "SOURCE", NumStr(lat2colat(pos[1])), NumStr(pos[2]),
                    FloatStr(event["depth_in_km"].n * 1000), "10",
                    NumStr(event["m_tt"]), NumStr(event["m_pp"]), NumStr(event["m_rr"]),
                    NumStr(event["m_tp"]), NumStr(event["m_rt"]), NumStr(event["m_rp"]),
                    "OUTPUT DIRECTORY", cfg["output_folder"].s >>
            [] OTHER -> <<IntStr(Len(parts) \div 2)>> \o parts]

\* A loop that ends every file with one newline only.
EndWithNewlinesOnce(files) == [f \in DOMAIN files |-> files[f] \o <<"">>]

\* The loop that closes write: output_files[key] += "\n\n" for every key.
\* A file is the sequence of its lines, so the two newlines are two empty
\* lines after the last one.
EndWithNewlines(files) == [f \in DOMAIN files |-> files[f] \o <<"", "">>]

\* backends/write_ses3d_4_1.py: write
WriteSes3d(cfg, evs, stats) ==
    LET c1 == IF cfg["adjoint_forward_wavefield_output_folder"].s = ""
              THEN DictSet(cfg, "adjoint_forward_wavefield_output_folder",
                           StrV(cfg["output_folder"].s \o "/ADJOINT_FORWARD_FIELD"))
              ELSE cfg
        c2 == IF c1["rotation_angle_in_degree"].n # 0
              THEN DictSet(c1, "rotation_angle_in_degree",
                           FloatV(-c1["rotation_angle_in_degree"].n))
              ELSE c1
        pos == Ses3dPosition(c2, evs[1]["latitude"], evs[1]["longitude"])
        files == Ses3dFiles(c2, evs[1], stats, sim_map[c2["simulation_type"].s])
    IN IF Len(cfg["stf_header"].l) > 4 THEN Raises("ValueError", cfg)
       ELSE IF c2["simulation_type"].s \notin DOMAIN sim_map THEN Raises("ValueError", c2)
       ELSE IF WrongEventCount(evs) THEN Raises("ValueError", c2)
       ELSE IF ~is_in_bounds(pos[1], pos[2], c2) THEN Raises("ValueError", c2)
       ELSE IF \E i \in 1..Len(stats) :
                   /\ is_in_bounds(Ses3dPosition(c2, stats[i]["latitude"],
                                                 stats[i]["longitude"])[1],
                                   Ses3dPosition(c2, stats[i]["latitude"],
                                                 stats[i]["longitude"])[2], c2)
                   /\ Len(SplitDot(stats[i]["id"].s)) < 2
            THEN Raises("IndexError", c2)
       ELSE IF c2["source_time_function"].n = 0
               \/ \E i \in 1..Len(c2["source_time_function"].l) :
                      ~IsNumber(c2["source_time_function"].l[i])
            THEN Raises("TypeError", c2)
       ELSE Returned(EndWithNewlines(files), c2)

\* writer["function"](config=config, events=_events, stations=_stations)
WriterFunction(format, cfg, evs, stats) ==
    CASE format = "ses3d_4_1" -> WriteSes3d(cfg, evs, stats)
      [] format = "SPECFEM3D_CARTESIAN_9e2aad47d52f97" -> WriteCartesian(cfg, evs, stats)
      [] format = "SPECFEM3D_GLOBE_CEM" -> WriteGlobeCem(cfg, evs, stats)
      [] format = "SPECFEM3D_GLOBE_EPOS" -> WriteGlobeEpos(cfg, evs, stats)


\* ------------------------------------------------------------------------
\* InputFileGenerator.write
\* ------------------------------------------------------------------------

\* sorted(items, key=lambda x: x["id"]): a stable sort by station id.
RECURSIVE SortedById(_)
SortedById(items) ==
    IF items = <<>> THEN <<>>
    ELSE LET m == CHOOSE i \in 1..Len(items) :
                      /\ \A j \in 1..Len(items) : IdRank(items[i]["id"].s) <= IdRank(items[j]["id"].s)
                      /\ \A j \in 1..(i - 1) : IdRank(items[j]["id"].s) # IdRank(items[i]["id"].s)
         IN <<items[m]>> \o SortedById([j \in 1..(Len(items) - 1) |->
                                          IF j < m THEN items[j] ELSE items[j + 1]])

\* Write working on the generator's own configuration object.
CopyConfigAlias(cfg) == [value |-> cfg, shared |-> TRUE]

\* Write working on the generator's own event dictionaries.
CopyEventsAlias(evs) == [value |-> unique_list(evs), shared |-> TRUE]

\* copy.deepcopy(self.config): the object write works on and hands to the
\* backend.  shared tells whether it is the generator's own object.
CopyConfig(cfg) == [value |-> cfg, shared |-> FALSE]

\* copy.deepcopy(unique_list(self._filtered_events)): unique_list makes a
\* new list; shared tells whether its dictionaries are the generator's own.
CopyEvents(evs) == [value |-> unique_list(evs), shared |-> FALSE]

\* A write that leaves the events it hands on as they are stored.
KeepingEventId(event) == event

\* del event["_event_id"]
WithoutEventId(event) == [k \in DOMAIN event \ {"_event_id"} |-> event[k]]

\* A first loop that blames the schema's first entry for a missing key
\* instead of the key that is missing.
RECURSIVE ResolveRequiredBlamingFirst(_, _, _, _)
ResolveRequiredBlamingFirst(items, i, cfg, attempted) ==
    IF i > Len(items) THEN [fct |-> "", config |-> cfg, attempted |-> attempted, status |-> "ok",
                            key |-> ""]
    ELSE IF items[i].name \notin DOMAIN cfg
         THEN [fct |-> "", config |-> cfg, attempted |-> attempted, status |-> "missing",
               key |-> items[1].name]
    ELSE LET c == Convert(items[i].fct, cfg[items[i].name]) IN
         IF ~c.ok
         THEN [fct |-> items[i].fct, config |-> cfg, attempted |-> attempted \cup {items[i].name},
               status |-> "convert", key |-> items[i].name]
         ELSE ResolveRequiredBlamingFirst(items, i + 1, DictSet(cfg, items[i].name, c.val),
                                          attempted \cup {items[i].name})

\* The first loop of write, over the required schema, from entry i on.
RECURSIVE ResolveRequired(_, _, _, _)
ResolveRequired(items, i, cfg, attempted) ==
    IF i > Len(items) THEN [fct |-> "", config |-> cfg, attempted |-> attempted, status |-> "ok",
                            key |-> ""]
    ELSE IF items[i].name \notin DOMAIN cfg
         THEN [fct |-> "", config |-> cfg, attempted |-> attempted, status |-> "missing",
               key |-> items[i].name]
    ELSE LET c == Convert(items[i].fct, cfg[items[i].name]) IN
         IF ~c.ok
         THEN [fct |-> items[i].fct, config |-> cfg, attempted |-> attempted \cup {items[i].name},
               status |-> "convert", key |-> items[i].name]
         ELSE ResolveRequired(items, i + 1, DictSet(cfg, items[i].name, c.val),
                              attempted \cup {items[i].name})

\* A second loop that always converts the schema's default.
DefaultInputIgnoringCaller(entry, cfg) == entry.default

\* The value the second loop converts for a default entry.
DefaultInput(entry, cfg) == IF entry.name \in DOMAIN cfg THEN cfg[entry.name] ELSE entry.default

\* A second loop that falls back to the schema's default when the caller's
\* value does not convert.
RECURSIVE ResolveDefaultLenient(_, _, _, _)
ResolveDefaultLenient(items, i, cfg, attempted) ==
    IF i > Len(items) THEN [fct |-> "", config |-> cfg, attempted |-> attempted, status |-> "ok",
                            key |-> ""]
    ELSE LET given == Convert(items[i].fct, DefaultInput(items[i], cfg))
             c == IF given.ok THEN given ELSE Convert(items[i].fct, items[i].default)
         IN
         IF ~c.ok
         THEN [fct |-> items[i].fct, config |-> cfg, attempted |-> attempted \cup {items[i].name},
               status |-> "convert", key |-> items[i].name]
         ELSE ResolveDefaultLenient(items, i + 1, DictSet(cfg, items[i].name, c.val),
                                    attempted \cup {items[i].name})

\* The second loop of write, over the default schema, from entry i on.
RECURSIVE ResolveDefault(_, _, _, _)
ResolveDefault(items, i, cfg, attempted) ==
    IF i > Len(items) THEN [fct |-> "", config |-> cfg, attempted |-> attempted, status |-> "ok",
                            key |-> ""]
    ELSE LET c == Convert(items[i].fct, DefaultInput(items[i], cfg)) IN
         IF ~c.ok
         THEN [fct |-> items[i].fct, config |-> cfg, attempted |-> attempted \cup {items[i].name},
               status |-> "convert", key |-> items[i].name]
         ELSE ResolveDefault(items, i + 1, DictSet(cfg, items[i].name, c.val),
                             attempted \cup {items[i].name})

\* Both loops, keeping only the keys the schemas know.
ResolveConfigSchemaOnly(format, cfg, seed) ==
    LET r == ResolveRequired(IterItems(WriteFunctions[format].required_config, seed), 1,
                             cfg, {})
        d == IF r.status # "ok" THEN r
             ELSE ResolveDefault(IterItems(WriteFunctions[format].default_config, seed), 1,
                                 r.config, r.attempted)
        known == {WriteFunctions[format].required_config[i].name :
                      i \in 1..Len(WriteFunctions[format].required_config)}
                 \cup {WriteFunctions[format].default_config[i].name :
                           i \in 1..Len(WriteFunctions[format].default_config)}
    IN [d EXCEPT !.config = [k \in DOMAIN d.config \cap known |-> d.config[k]]]

\* Both loops.
ResolveConfig(format, cfg, seed) ==
    LET r == ResolveRequired(IterItems(WriteFunctions[format].required_config, seed), 1,
                             cfg, {})
    IN IF r.status # "ok" THEN r
       ELSE ResolveDefault(IterItems(WriteFunctions[format].default_config, seed), 1,
                           r.config, r.attempted)

\* The call write(format) on the generator: its record.
WriteCall(format) ==
    LET failed(exc, mentions, attempted) ==
            [op |-> "write", raised |-> TRUE, format |-> format, exc |-> exc,
             mentions |-> mentions, invoked |-> FALSE, files |-> EmptyDict, pre |-> Generator,
             handed_config |-> EmptyDict, handed_events |-> <<>>, handed_stations |-> <<>>,
             attempted |-> attempted, final_config |-> EmptyDict, work |-> EmptyDict,
             added |-> <<>>, given |-> <<>>, pre_disk |-> disk]
    IN IF format \notin DOMAIN WriteFunctions
       THEN [failed("ValueError", {format} \cup DOMAIN WriteFunctions, {})
               EXCEPT !.work = config]
       ELSE
         LET _stations == SortedById(unique_list(filtered_stations))
             copied == CopyEvents(filtered_events)
             _events == [i \in 1..Len(copied.value) |-> WithoutEventId(copied.value[i])]
             r == ResolveConfig(format, CopyConfig(config).value, iterSeed)
             out == WriterFunction(format, r.config, _events, _stations)
         IN IF r.status = "missing"
            THEN [failed("ValueError", {format, r.key}, r.attempted) EXCEPT !.work = r.config]
            ELSE IF r.status = "convert"
            THEN [failed("ValueError", {r.key, r.fct}, r.attempted) EXCEPT !.work = r.config]
            ELSE [op |-> "write", raised |-> out.raised, format |-> format, exc |-> out.exc,
                  mentions |-> {}, invoked |-> TRUE, files |-> out.files, pre |-> Generator,
                  handed_config |-> r.config, handed_events |-> _events,
                  handed_stations |-> _stations, attempted |-> r.attempted,
                  final_config |-> out.config, work |-> out.config, added |-> <<>>,
                  given |-> <<>>, pre_disk |-> disk]

\* What the generator's events are after write removed the _event_id keys
\* from its working list.
EventsAfterWrite(format) ==
    IF format \in DOMAIN WriteFunctions /\ CopyEvents(filtered_events).shared
    THEN [i \in 1..Len(events) |->
            IF \E j \in 1..Len(filtered_events) : filtered_events[j] = events[i]
            THEN WithoutEventId(events[i]) ELSE events[i]]
    ELSE events

\* write(format): without an output_dir, the call leaves nothing but its
\* return value or its exception.
Write(formats) ==
    \E i \in 1..Len(formats) :
        LET call == WriteCall(formats[i]) IN
        /\ last' = call
        /\ prev' = IF last.op = "write" /\ last.format = formats[i]
                   THEN [op |-> "write", raised |-> last.raised, format |-> last.format,
                         files |-> last.files]
                   ELSE NoCall
        /\ config' = IF formats[i] \in DOMAIN WriteFunctions /\ CopyConfig(config).shared
                     THEN call.work ELSE config
        /\ events' = EventsAfterWrite(formats[i])
        /\ UNCHANGED <<stations, station_filter, event_filter, iterSeed, disk>>

\* ------------------------------------------------------------------------
\* write(format, output_dir): the files on disk.  The file system maps a
\* path to what it holds, a directory or a plain file with its lines.
\* ------------------------------------------------------------------------

FileNode(lines) == [isdir |-> FALSE, text |-> lines]
DirNode == [isdir |-> TRUE, text |-> <<>>]

\* os.path.join(output_dir, filename)
PathJoin(dir, filename) == dir \o "/" \o filename

\* The file names of all backends, in the order in which each backend adds
\* them to its mapping.
FileOrder ==
    <<"STF", "Par_file", "CMTSOLUTION", "STATIONS", "setup", "event_1", "event_list",
      "recfile_1", "relax", "stf">>

\* input_files.iteritems(): the names in the order the interpreter yields
\* them.
FileNames(files, seed) ==
    IterItems(PyFilter([i \in 1..Len(FileOrder) |-> FileOrder[i] \in DOMAIN files], FileOrder),
              seed)

\* for filename, content in input_files.iteritems(): with open(..., "wt")
\* ...: each file replaces what the path held; open() on a path that is a
\* directory raises IOError and ends the loop with the files written so far.
RECURSIVE WriteFilesLoop(_, _, _, _, _)
WriteFilesLoop(names, i, dir, files, d) ==
    IF i > Len(names) THEN [raised |-> FALSE, exc |-> "", on_disk |-> d]
    ELSE IF PathJoin(dir, names[i]) \in DOMAIN d /\ d[PathJoin(dir, names[i])].isdir
         THEN [raised |-> TRUE, exc |-> "IOError", on_disk |-> d]
    ELSE WriteFilesLoop(names, i + 1, dir, files,
                        DictSet(d, PathJoin(dir, names[i]), FileNode(files[names[i]])))

\* A write that makes the output directory before it looks up the format.
WriteOutputDirEager(call, dir, d, seed) ==
    LET d1 == IF dir # "" /\ dir \notin DOMAIN d THEN DictSet(d, dir, DirNode) ELSE d
    IN IF call.raised \/ dir = "" THEN [raised |-> FALSE, exc |-> "", on_disk |-> d1]
       ELSE IF ~d1[dir].isdir THEN [raised |-> TRUE, exc |-> "ValueError", on_disk |-> d1]
       ELSE WriteFilesLoop(FileNames(call.files, seed), 1, dir, call.files, d1)

\* The end of write, reached when the backend has returned: if output_dir:
\* make the directory unless the path exists, raise ValueError when the path
\* is no directory, write the files.  dir = "" stands for no output_dir.
WriteOutputDir(call, dir, d, seed) ==
    IF call.raised \/ dir = "" THEN [raised |-> FALSE, exc |-> "", on_disk |-> d]
    ELSE LET d1 == IF dir \notin DOMAIN d THEN DictSet(d, dir, DirNode) ELSE d
         IN IF ~d1[dir].isdir THEN [raised |-> TRUE, exc |-> "ValueError", on_disk |-> d1]
            ELSE WriteFilesLoop(FileNames(call.files, seed), 1, dir, call.files, d1)

\* What write(format, output_dir) leaves: its record, the generator and
\* the file system.  call is the work of write up to the backend's return,
\* out the writing of the files.
WriteToEnd(call, out, dir, format) ==
    /\ last' = [call EXCEPT !.raised = call.raised \/ out.raised,
                            !.exc = IF call.raised THEN call.exc ELSE out.exc,
                            !.given = <<StrV(dir)>>]
    /\ prev' = IF last.op = "write" /\ last.format = format
               THEN [op |-> "write", raised |-> last.raised, format |-> last.format,
                     files |-> last.files]
               ELSE NoCall
    /\ config' = IF format \in DOMAIN WriteFunctions /\ CopyConfig(config).shared
                 THEN call.work ELSE config
    /\ events' = EventsAfterWrite(format)
    /\ disk' = out.on_disk
    /\ UNCHANGED <<stations, station_filter, event_filter, iterSeed>>

WriteToDir(call, dir, format) ==
    WriteToEnd(call, WriteOutputDir(call, dir, disk, iterSeed), dir, format)

\* write(format, output_dir)
WriteTo(formats, dirs) ==
    \E i \in 1..Len(formats), j \in 1..Len(dirs) :
        WriteToDir(WriteCall(formats[i]), dirs[j], formats[i])

\* ------------------------------------------------------------------------
\* __find_write_scripts: the registry as it is built from the files of the
\* backends directory.  The text of a module is the sequence of its
\* top-level statements.
\* ------------------------------------------------------------------------

\* glob.glob(os.path.join(write_dir, "write_*.py")) and name[6:]: the paths
\* of the backends directory the model knows, each with the format name of
\* the file when the pattern matches it and "" when it does not.
BackendsDir ==
    [p \in {"backends/write_ses3d_4_1.py",
            "backends/write_SPECFEM3D_CARTESIAN_9e2aad47d52f97.py",
            "backends/write_SPECFEM3D_GLOBE_CEM.py", "backends/write_SPECFEM3D_GLOBE_EPOS.py",
            "backends/write_extra.py", "backends/write_other.py", "backends/helper.py",
            "backends/__init__.py"} |->
       CASE p = "backends/write_ses3d_4_1.py" -> "ses3d_4_1"
         [] p = "backends/write_SPECFEM3D_CARTESIAN_9e2aad47d52f97.py" ->
                "SPECFEM3D_CARTESIAN_9e2aad47d52f97"
         [] p = "backends/write_SPECFEM3D_GLOBE_CEM.py" -> "SPECFEM3D_GLOBE_CEM"
         [] p = "backends/write_SPECFEM3D_GLOBE_EPOS.py" -> "SPECFEM3D_GLOBE_EPOS"
         [] p = "backends/write_extra.py" -> "extra"
         [] p = "backends/write_other.py" -> "other"
         [] OTHER -> ""]

Has(text, statement) == \E i \in 1..Len(text) : text[i] = statement

\* What the try block does with a module: "exit" when its import raises
\* outside Exception (sys.exit() raises SystemExit, which except Exception
\* lets pass), "skip" when the import or one of the three attribute reads
\* raises an Exception or write is not callable, "register" otherwise.
ImportModule(text) ==
    IF Has(text, "sys.exit()") THEN "exit"
    ELSE IF Has(text, "raise ImportError") THEN "skip"
    ELSE IF ~(Has(text, "def write(config, events, stations):") \/ Has(text, "write = 1"))
            \/ ~Has(text, "REQUIRED_CONFIGURATION = {}")
            \/ ~Has(text, "DEFAULT_CONFIGURATION = {}")
         THEN "skip"
    ELSE IF ~Has(text, "def write(config, events, stations):") THEN "skip"
    ELSE "register"

\* __find_write_scripts on the file system d: the names it registers, or
\* the exception that leaves it.
FindWriteScripts(d) ==
    LET files == {p \in DOMAIN d \cap DOMAIN BackendsDir : BackendsDir[p] # "" /\ ~d[p].isdir}
    IN IF \E p \in files : ImportModule(d[p].text) = "exit"
       THEN [raised |-> TRUE, exc |-> "SystemExit", registered |-> {}]
       ELSE [raised |-> FALSE, exc |-> "",
             registered |-> {BackendsDir[p] : p \in {q \in files :
                                                     ImportModule(d[q].text) = "register"}}]

\* get_available_formats(): mentions holds the names it returns.
GetAvailableFormats ==
    /\ last' = [CallRecord("get_available_formats", FindWriteScripts(disk).raised)
                  EXCEPT !.exc = FindWriteScripts(disk).exc,
                         !.mentions = FindWriteScripts(disk).registered,
                         !.pre_disk = disk]
    /\ prev' = NoCall
    /\ UNCHANGED <<config, events, stations, station_filter, event_filter, iterSeed, disk>>

\* get_config_params(solver_name) on the registry of the file system.
GetConfigParamsOf(names) ==
    \E i \in 1..Len(names) :
        /\ last' = [CallRecord("get_config_params",
                               \/ FindWriteScripts(disk).raised
                               \/ names[i] \notin FindWriteScripts(disk).registered)
                      EXCEPT !.format = names[i],
                             !.exc = IF FindWriteScripts(disk).raised
                                     THEN FindWriteScripts(disk).exc
                                     ELSE IF names[i] \notin FindWriteScripts(disk).registered
                                     THEN "ValueError" ELSE "",
                             !.pre_disk = disk]
        /\ prev' = NoCall
        /\ UNCHANGED <<config, events, stations, station_filter, event_filter, iterSeed, disk>>

\* Somebody puts a module into the backends directory or replaces one; no
\* call of the generator is the last thing that happened then.
InstallModule(paths, texts) ==
    \E i \in 1..Len(paths), j \in 1..Len(texts) :
        /\ disk' = DictSet(disk, paths[i], FileNode(texts[j]))
        /\ last' = CallRecord("install_module", FALSE)
        /\ prev' = NoCall
        /\ UNCHANGED <<config, events, stations, station_filter, event_filter, iterSeed>>

\* get_config_params(solver_name)
GetConfigParams(names) ==
    \E i \in 1..Len(names) :
        /\ last' = [CallRecord("get_config_params", names[i] \notin DOMAIN WriteFunctions)
                      EXCEPT !.format = names[i],
                             !.mentions = IF names[i] \notin DOMAIN WriteFunctions
                                          THEN {names[i]} ELSE {}]
        /\ prev' = NoCall
        /\ UNCHANGED <<config, events, stations, station_filter, event_filter, iterSeed, disk>>


\* ------------------------------------------------------------------------
\* write at the level of key names.  The schemas and templates above are
\* abridged; which keys exist when the backend reads them depends on the
\* names only, and here are all of them for ses3d_4_1 and
\* SPECFEM3D_CARTESIAN_9e2aad47d52f97: the keys of REQUIRED_CONFIGURATION and
\* DEFAULT_CONFIGURATION, the attributes of config the ses3d write function
\* reads in the order of their first use, and the placeholders of the
\* Cartesian Par_file template.
\* ------------------------------------------------------------------------

Ses3dRequiredKeys ==
    <<"output_folder", "number_of_time_steps", "time_increment_in_s",
      "mesh_min_latitude", "mesh_max_latitude", "mesh_min_longitude",
      "mesh_max_longitude", "mesh_min_depth_in_km", "mesh_max_depth_in_km",
      "nx_global", "ny_global", "nz_global", "px", "py", "pz", "source_time_function">>

Ses3dDefaultKeys ==
    <<"event_tag", "is_dissipative", "stf_header", "output_displacement",
      "displacement_snapshot_sampling", "lagrange_polynomial_degree",
      "simulation_type", "adjoint_forward_sampling_rate",
      "adjoint_forward_wavefield_output_folder", "rotation_angle_in_degree",
      "rotation_axis", "Q_model_relaxation_times",
      "Q_model_weights_of_relaxation_mechanisms">>

Ses3dAttributes ==
    <<"stf_header", "adjoint_forward_wavefield_output_folder", "output_folder",
      "rotation_angle_in_degree", "simulation_type", "mesh_min_latitude",
      "mesh_max_latitude", "mesh_min_longitude", "mesh_max_longitude",
      "mesh_min_depth_in_km", "mesh_max_depth_in_km", "rotation_axis",
      "is_dissipative", "lagrange_polynomial_degree", "nx_global", "ny_global",
      "nz_global", "px", "py", "pz", "adjoint_forward_sampling_rate",
      "number_of_time_steps", "time_increment_in_s", "displacement_snapshot_sampling",
      "output_displacement", "event_tag", "Q_model_relaxation_times",
      "Q_model_weights_of_relaxation_mechanisms", "source_time_function">>

CartesianRequiredKeys ==
    <<"NPROC", "NSTEP", "DT", "SIMULATION_TYPE">>

CartesianDefaultKeys ==
    <<"NOISE_TOMOGRAPHY", "SAVE_FORWARD", "UTM_PROJECTION_ZONE",
      "SUPPRESS_UTM_PROJECTION", "NGNOD", "MODEL", "SEP_MODEL_DIRECTORY",
      "APPROXIMATE_OCEAN_LOAD", "TOPOGRAPHY", "ATTENUATION", "FULL_ATTENUATION_SOLID",
      "ANISOTROPY", "GRAVITY", "TOMOGRAPHY_PATH", "USE_OLSEN_ATTENUATION",
      "OLSEN_ATTENUATION_RATIO", "PML_CONDITIONS", "PML_INSTEAD_OF_FREE_SURFACE",
      "f0_FOR_PML", "STACEY_ABSORBING_CONDITIONS", "STACEY_INSTEAD_OF_FREE_SURFACE",
      "CREATE_SHAKEMAP", "MOVIE_SURFACE", "MOVIE_TYPE", "MOVIE_VOLUME",
      "SAVE_DISPLACEMENT", "USE_HIGHRES_FOR_MOVIES", "NTSTEP_BETWEEN_FRAMES",
      "HDUR_MOVIE", "SAVE_MESH_FILES", "LOCAL_PATH", "NTSTEP_BETWEEN_OUTPUT_INFO",
      "NTSTEP_BETWEEN_OUTPUT_SEISMOS", "NTSTEP_BETWEEN_READ_ADJSRC",
      "USE_FORCE_POINT_SOURCE", "USE_RICKER_TIME_FUNCTION", "GPU_MODE",
      "ROTATE_PML_ACTIVATE", "ROTATE_PML_ANGLE", "PRINT_SOURCE_TIME_FUNCTION",
      "COUPLE_WITH_EXTERNAL_CODE", "EXTERNAL_CODE_TYPE", "TRACTION_PATH",
      "MESH_A_CHUNK_OF_THE_EARTH", "ADIOS_ENABLED", "ADIOS_FOR_DATABASES",
      "ADIOS_FOR_MESH", "ADIOS_FOR_FORWARD_ARRAYS", "ADIOS_FOR_KERNELS">>

CartesianPlaceholders ==
    <<"SIMULATION_TYPE", "NOISE_TOMOGRAPHY", "SAVE_FORWARD", "UTM_PROJECTION_ZONE",
      "SUPPRESS_UTM_PROJECTION", "NPROC", "NSTEP", "DT", "NGNOD", "MODEL",
      "SEP_MODEL_DIRECTORY", "APPROXIMATE_OCEAN_LOAD", "TOPOGRAPHY", "ATTENUATION",
      "FULL_ATTENUATION_SOLID", "ANISOTROPY", "GRAVITY", "TOMOGRAPHY_PATH",
      "USE_OLSEN_ATTENUATION", "OLSEN_ATTENUATION_RATIO", "PML_CONDITIONS",
      "PML_INSTEAD_OF_FREE_SURFACE", "f0_FOR_PML", "ROTATE_PML_ACTIVATE",
      "ROTATE_PML_ANGLE", "STACEY_ABSORBING_CONDITIONS",
      "STACEY_INSTEAD_OF_FREE_SURFACE", "CREATE_SHAKEMAP", "MOVIE_SURFACE",
      "MOVIE_TYPE", "MOVIE_VOLUME", "SAVE_DISPLACEMENT", "USE_HIGHRES_FOR_MOVIES",
      "NTSTEP_BETWEEN_FRAMES", "HDUR_MOVIE", "SAVE_MESH_FILES", "LOCAL_PATH",
      "NTSTEP_BETWEEN_OUTPUT_INFO", "NTSTEP_BETWEEN_OUTPUT_SEISMOS",
      "NTSTEP_BETWEEN_READ_ADJSRC", "USE_FORCE_POINT_SOURCE",
      "USE_RICKER_TIME_FUNCTION", "PRINT_SOURCE_TIME_FUNCTION",
      "COUPLE_WITH_EXTERNAL_CODE", "EXTERNAL_CODE_TYPE", "TRACTION_PATH",
      "MESH_A_CHUNK_OF_THE_EARTH", "GPU_MODE", "ADIOS_ENABLED", "ADIOS_FOR_DATABASES",
      "ADIOS_FOR_MESH", "ADIOS_FOR_FORWARD_ARRAYS", "ADIOS_FOR_KERNELS">>

SeqSet(names) == {names[i] : i \in 1..Len(names)}

RequiredKeysOf(format) ==
    IF format = "ses3d_4_1" THEN Ses3dRequiredKeys ELSE CartesianRequiredKeys

DefaultKeysOf(format) ==
    IF format = "ses3d_4_1" THEN Ses3dDefaultKeys ELSE CartesianDefaultKeys

\* The keys the backend's write function reads from the configuration.
ReadsOf(format) ==
    IF format = "ses3d_4_1" THEN Ses3dAttributes ELSE CartesianPlaceholders

\* What reading an absent key raises: an attribute of the configuration
\* object in ses3d_4_1, a placeholder of str.format(**c) in the Cartesian
\* backend.
MissingKeyError(format) == IF format = "ses3d_4_1" THEN "AttributeError" ELSE "KeyError"

\* The first of the names, from name i on, that is not among keys; "" when
\* all are.
RECURSIVE FirstAbsent(_, _, _)
FirstAbsent(names, keys, i) ==
    IF i > Len(names) THEN ""
    ELSE IF names[i] \notin keys THEN names[i]
    ELSE FirstAbsent(names, keys, i + 1)

\* A write whose second loop sets nothing.
KeysHandedRequiredOnly(format, keys) == keys \cup SeqSet(RequiredKeysOf(format))

\* The keys of the configuration after the two loops of write: every loop
\* assigns config[config_name] for each key of its schema.
KeysHanded(format, keys) ==
    keys \cup SeqSet(RequiredKeysOf(format)) \cup SeqSet(DefaultKeysOf(format))

\* write(format), followed key by key: the required keys are looked for in
\* the caller's configuration, the schemas' keys are set, and the backend
\* reads its keys one after the other.
WriteKeys(formats) ==
    \E i \in 1..Len(formats) :
        LET missing == FirstAbsent(IterItems(RequiredKeysOf(formats[i]), iterSeed),
                                   DOMAIN config, 1)
            handed == KeysHanded(formats[i], DOMAIN config)
            unread == FirstAbsent(ReadsOf(formats[i]), handed, 1)
        IN
        /\ last' = [CallRecord("write_keys", missing # "" \/ unread # "")
                      EXCEPT !.format = formats[i],
                             !.exc = IF missing # "" THEN "ValueError"
                                     ELSE IF unread # "" THEN MissingKeyError(formats[i])
                                     ELSE "",
                             !.mentions = IF missing # "" THEN {formats[i], missing}
                                          ELSE IF unread # "" THEN {unread}
                                          ELSE {},
                             !.invoked = (missing = ""),
                             !.pre = Generator,
                             !.attempted = IF missing = "" THEN handed ELSE {}]
        /\ prev' = NoCall
        /\ UNCHANGED <<config, events, stations, station_filter, event_filter, iterSeed, disk>>


\* ------------------------------------------------------------------------
\* The calls the model makes
\* ------------------------------------------------------------------------

\* How many dictionary iteration orders are tried beyond the source order.
MaxSeed == 1

Dict1(k1, v1) == [k \in {k1} |-> v1]

CartesianConfig ==
    [k \in {"NPROC", "NSTEP", "DT", "SIMULATION_TYPE"} |->
       CASE k = "NPROC" -> StrV("4") [] k = "NSTEP" -> IntV(5) [] k = "DT" -> StrV("0.5")
         [] k = "SIMULATION_TYPE" -> IntV(1)]

Ses3dConfig ==
    [k \in {"output_folder", "number_of_time_steps", "mesh_min_latitude", "mesh_max_latitude",
            "mesh_min_longitude", "mesh_max_longitude", "source_time_function"} |->
       CASE k = "output_folder" -> StrV("out")
         [] k = "number_of_time_steps" -> FloatV(11)
         [] k = "mesh_min_latitude" -> IntV(0)
         [] k = "mesh_max_latitude" -> IntV(4)
         [] k = "mesh_min_longitude" -> StrV("0")
         [] k = "mesh_max_longitude" -> IntV(4)
         [] k = "source_time_function" -> ListV(<<FloatV(1), IntV(1)>>)]

GlobeCemConfig ==
    [k \in {"NPROC_XI", "RECORD_LENGTH_IN_MINUTES", "SIMULATION_TYPE", "MODEL"} |->
       CASE k = "NPROC_XI" -> IntV(4) [] k = "RECORD_LENGTH_IN_MINUTES" -> StrV("1.5")
         [] k = "SIMULATION_TYPE" -> IntV(1) [] k = "MODEL" -> StrV("CEM_ACCEPT")]

\* A required value no int() accepts.
BadRequired == Dict1("NPROC", StrV("abc"))

\* Values for defaulted keys no conversion accepts.
BadDefault ==
    [k \in {"HDUR_MOVIE", "rotation_axis"} |->
       IF k = "HDUR_MOVIE" THEN StrV("abc") ELSE StrV("ab")]

\* Values for defaulted keys, and a key no schema knows.
Overrides ==
    [k \in {"SAVE_FORWARD", "rotation_angle_in_degree", "SOURCE_TIME_FUNCTION", "my_note"} |->
       CASE k = "SAVE_FORWARD" -> IntV(1)
         [] k = "rotation_angle_in_degree" -> IntV(1)
         [] k = "SOURCE_TIME_FUNCTION" -> ListV(<<IntV(1)>>)
         [] k = "my_note" -> ListV(<<StrV("ab"), BoolV(TRUE)>>)]

FullConfig == DictUpdate(DictUpdate(CartesianConfig, Ses3dConfig), GlobeCemConfig)

EventDict(tensor, shear) ==
    [d |-> [k \in {required_keys[i] : i \in 1..Len(required_keys)} |->
              CASE k = "latitude" -> IntV(1)
                [] k = "longitude" -> StrV("1")
                [] k = "depth_in_km" -> FloatV(10)
                [] k = "origin_time" -> StrV("1970-01-01T00:00:05")
                [] k \in {"m_rr", "m_tt", "m_pp"} -> IntV(tensor)
                [] OTHER -> IntV(shear)],
     kind |-> "dict"]

\* An obspy Event object as readEvents gives it.
EventObject(id) ==
    [origins |-> << [k \in {"latitude", "longitude", "depth", "time"} |->
                       CASE k = "latitude" -> FloatV(2) [] k = "longitude" -> FloatV(3)
                         [] k = "depth" -> FloatV(5000) [] k = "time" -> TimeV(10)] >>,
     focal_mechanisms |-> << [k \in {"m_rr", "m_tt", "m_pp", "m_rt", "m_rp", "m_tp"} |->
                                FloatV(2)] >>,
     resource_id |-> id,
     event_descriptions |-> <<"Turkey", "2011">>,
     kind |-> "event"]

\* An event dictionary that lacks one key.
EventWithout(key) ==
    [d |-> [k \in DOMAIN EventDict(1, 0).d \ {key} |-> EventDict(1, 0).d[k]], kind |-> "dict"]

\* An event dictionary with all its keys, one of them holding v.
EventWith(key, v) == [d |-> DictSet(EventDict(1, 0).d, key, v), kind |-> "dict"]

StationDict(id, elevation) ==
    [d |-> [k \in {"id", "latitude", "longitude", "elevation_in_m"} |->
              CASE k = "id" -> StrV(id) [] k = "latitude" -> IntV(1)
                [] k = "longitude" -> StrV("1.5") [] k = "elevation_in_m" -> IntV(elevation)],
     kind |-> "dict"]

StationDepthDict(id, elevation, depth) ==
    [d |-> DictSet(StationDict(id, elevation).d, "local_depth_in_m", IntV(depth)),
     kind |-> "dict"]

\* A station dictionary with all its keys, one of them holding v.
StationWith(id, key, v) ==
    [d |-> DictSet(StationDepthDict(id, 10, 5).d, key, v), kind |-> "dict"]

\* A station dictionary without coordinates.
StationIdOnly(id) == [d |-> Dict1("id", StrV(id)), kind |-> "dict"]

\* A backend module as the four in backends/ are, in its top-level
\* statements.
GoodModule ==
    <<"REQUIRED_CONFIGURATION = {}", "DEFAULT_CONFIGURATION = {}",
      "def write(config, events, stations):">>

\* Modules somebody may put into backends/: a good one, one whose import
\* raises ImportError, one that leaves the interpreter, one without write,
\* one whose write is a number, one without each of the schemas.
ModuleTexts ==
    << GoodModule,
       <<"raise ImportError">> \o GoodModule,
       <<"sys.exit()">> \o GoodModule,
       <<"REQUIRED_CONFIGURATION = {}", "DEFAULT_CONFIGURATION = {}">>,
       <<"REQUIRED_CONFIGURATION = {}", "DEFAULT_CONFIGURATION = {}", "write = 1">>,
       <<"DEFAULT_CONFIGURATION = {}", "def write(config, events, stations):">>,
       <<"REQUIRED_CONFIGURATION = {}", "def write(config, events, stations):">> >>

\* The file system the generator starts on: a directory with a file and a
\* subdirectory of an earlier run, and a plain file.
InitialDisk ==
    [p \in {"old", "old/setup", "old/STATIONS", "notes.txt", "backends/__init__.py",
            "backends/write_ses3d_4_1.py",
            "backends/write_SPECFEM3D_CARTESIAN_9e2aad47d52f97.py",
            "backends/write_SPECFEM3D_GLOBE_CEM.py",
            "backends/write_SPECFEM3D_GLOBE_EPOS.py"} |->
       CASE p = "old" -> DirNode
         [] p = "old/STATIONS" -> DirNode
         [] p = "old/setup" -> FileNode(<<"stale">>)
         [] p = "notes.txt" -> FileNode(<<"a note">>)
         [] p = "backends/__init__.py" -> FileNode(<<>>)
         [] OTHER -> FileNode(GoodModule)]

AllFormats ==
    <<"ses3d_4_1", "SPECFEM3D_CARTESIAN_9e2aad47d52f97", "SPECFEM3D_GLOBE_CEM",
      "SPECFEM3D_GLOBE_EPOS", "SPECFEM3D_CARTESIAN">>

Init ==
    /\ config = EmptyDict
    /\ events = <<>>
    /\ stations = <<>>
    /\ station_filter = NoneV
    /\ event_filter = NoneV
    /\ iterSeed \in 0..MaxSeed
    /\ last = CallRecord("init", FALSE)
    /\ prev = NoCall
    /\ disk = InitialDisk

\* Configuration resolution: many configurations, one event, one station.
NextConfig ==
    \/ AddConfiguration(<<CartesianConfig, Ses3dConfig, GlobeCemConfig, BadRequired,
                          BadDefault, Overrides>>)
    \/ AddEvents(<< <<EventDict(1, 0)>> >>)
    \/ AddStations(<< <<StationDict("KO.ADVT", 10)>> >>)
    \/ Write(AllFormats)
    \/ GetConfigParams(AllFormats)

SpecConfig == Init /\ [][NextConfig]_vars

\* The generator as a whole: complete configurations, several events, the
\* filters.
Next ==
    \/ AddConfiguration(<<FullConfig, Overrides>>)
    \/ AddEvents(<< <<EventDict(1, 0)>>, <<EventDict(0, 1)>>, <<EventObject("smi:ev1")>>,
                    <<EventDict(1, 0), EventObject("smi:ev1")>> >>)
    \/ AddStations(<< <<StationDict("KO.ADVT", 10)>> >>)
    \/ SetStationFilter(<<NoneV, ListV(<<StrV("*.AFSR")>>)>>)
    \/ SetEventFilter(<<NoneV, ListV(<<StrV("SMI:EV1")>>)>>)
    \/ Write(AllFormats)

Spec == Init /\ [][Next]_vars

\* The station list: records that share an id, in one call and in several.
NextStations ==
    \/ AddConfiguration(<<FullConfig>>)
    \/ AddEvents(<< <<EventDict(1, 0)>> >>)
    \/ AddStations(<< <<StationDict("KO.ADVT", 10)>>,
                      <<StationDict("KO.ADVT", 20)>>,
                      <<StationDict("KO.ADVT", 10), StationDict("KO.ADVT", 20)>>,
                      <<StationDepthDict("KO.AFSR", 220, 5), StationDict("KO.ADVT", 10)>>,
                      <<StationDict("KO.AFSR", 220), StationIdOnly("KO.ADVT")>>,
                      <<StationDict("A.B.C", 10), StationWith("KO.ADVT", "latitude", NoneV)>>,
                      <<StationWith("KO.ADVT", "longitude", StrV("abc"))>>,
                      <<StationWith("KO.AFSR", "local_depth_in_m", StrV("abc"))>> >>)
    \/ SetStationFilter(<<NoneV, ListV(<<StrV("*.AFSR")>>), IntV(1)>>)
    \/ Write(AllFormats)

SpecStations == Init /\ [][NextStations]_vars

\* A configuration that gives a value to each of the names.
KeyDict(names) == [k \in SeqSet(names) |-> IntV(1)]

\* The keys of a configuration: all required keys of a backend, some of
\* them, keys that have a default, a key no schema knows.
NextKeys ==
    \/ AddConfiguration(<<KeyDict(Ses3dRequiredKeys), KeyDict(CartesianRequiredKeys),
                          KeyDict(SubSeq(Ses3dRequiredKeys, 1, 8)),
                          KeyDict(SubSeq(Ses3dRequiredKeys, 9, 16)),
                          KeyDict(<<"NPROC", "DT">>),
                          KeyDict(<<"rotation_axis", "MODEL", "GPU_MODE">>),
                          KeyDict(<<"my_note">>)>>)
    \/ WriteKeys(<<"ses3d_4_1", "SPECFEM3D_CARTESIAN_9e2aad47d52f97">>)

SpecKeys == Init /\ [][NextKeys]_vars

\* The station filter: stations of three ids, filters of no, one and two
\* patterns.
NextFilters ==
    \/ AddStations(<< <<StationDict("KO.ADVT", 10)>>, <<StationDict("KO.AFSR", 220)>>,
                      <<StationDict("A.B.C", 10)>> >>)
    \/ SetStationFilter(<<NoneV, ListV(<<>>), ListV(<<StrV("*.AFSR")>>),
                           ListV(<<StrV("A.*"), StrV("*.AFSR")>>), IntV(1)>>)

SpecFilters == Init /\ [][NextFilters]_vars

\* The event list: dictionaries with all keys, without one and with a value
\* that is no number, and event objects.
NextEvents ==
    \/ AddEvents(<< <<EventDict(1, 0)>>, <<EventDict(0, 0)>>, <<EventWithout("m_tp")>>,
                    <<EventWith("latitude", StrV("abc"))>>,
                    <<EventWith("origin_time", StrV("abc"))>>,
                    <<EventObject("smi:ev1")>>, <<EventObject("smi:ev2")>>,
                    <<EventDict(1, 0), EventWithout("latitude")>> >>)
    \/ SetEventFilter(<<NoneV, ListV(<<StrV("SMI:EV1")>>)>>)

SpecEvents == Init /\ [][NextEvents]_vars

\* The event filter: events with and without an id, filters of no, one and
\* two ids, and write.
NextEventFilter ==
    \/ AddConfiguration(<<FullConfig>>)
    \/ AddEvents(<< <<EventDict(1, 0)>>, <<EventObject("smi:ev1")>>,
                    <<EventObject("smi:ev2")>> >>)
    \/ SetEventFilter(<<NoneV, ListV(<<>>), ListV(<<StrV("SMI:EV1")>>),
                         ListV(<<StrV("smi:ev3"), StrV("smi:ev2")>>), IntV(1)>>)
    \/ Write(<<"ses3d_4_1", "SPECFEM3D_GLOBE_EPOS">>)

SpecEventFilter == Init /\ [][NextEventFilter]_vars


\* The station codes: ids of two parts and of three, written by a backend
\* of each family.
NextCodes ==
    \/ AddConfiguration(<<FullConfig>>)
    \/ AddEvents(<< <<EventDict(1, 0)>> >>)
    \/ AddStations(<< <<StationDict("KO.ADVT", 10)>>, <<StationDict("KO.AFSR", 220)>>,
                      <<StationDict("A.B.C", 10)>> >>)
    \/ Write(<<"ses3d_4_1", "SPECFEM3D_CARTESIAN_9e2aad47d52f97">>)

SpecCodes == Init /\ [][NextCodes]_vars


\* Writing to disk: no output_dir, a new directory, an existing directory
\* and a path that holds a plain file, for a backend of each family and an
\* unknown format.
NextOutput ==
    \/ AddConfiguration(<<FullConfig>>)
    \/ AddEvents(<< <<EventDict(1, 0)>> >>)
    \/ AddStations(<< <<StationDict("KO.ADVT", 10)>> >>)
    \/ WriteTo(<<"ses3d_4_1", "SPECFEM3D_CARTESIAN_9e2aad47d52f97", "SPECFEM3D_CARTESIAN">>,
               <<"", "out", "old", "notes.txt">>)

SpecOutput == Init /\ [][NextOutput]_vars

\* The registry: modules of every kind put into the backends directory,
\* under names the pattern matches and under one it does not, and the calls
\* that build the registry.
NextRegistry ==
    \/ InstallModule(<<"backends/write_extra.py", "backends/write_other.py">>, ModuleTexts)
    \/ InstallModule(<<"backends/helper.py">>, <<GoodModule>>)
    \/ GetAvailableFormats
    \/ GetConfigParamsOf(<<"ses3d_4_1", "extra", "helper">>)

SpecRegistry == Init /\ [][NextRegistry]_vars

\* The header and the simulation type of ses3d_4_1: stf_header given as a
\* string of three characters and of five and as a list of four entries and
\* of five, simulation_type given as each name the schema documents, as each
\* name the backend maps and as a name neither knows.
HeaderConfigs ==
    << FullConfig,
       Dict1("stf_header", StrV("abc")),
       Dict1("stf_header", StrV("hello")),
       Dict1("stf_header", ListV(<<StrV("ab"), IntV(1), StrV("abc"), StrV("1")>>)),
       Dict1("stf_header", ListV(<<StrV("1"), StrV("1"), StrV("1"), StrV("1"), StrV("1")>>)),
       Dict1("simulation_type", StrV("normal simulation")),
       Dict1("simulation_type", StrV("adjoint forward")),
       Dict1("simulation_type", StrV("adjoint backward")),
       Dict1("simulation_type", StrV("adjoint reverse")),
       Dict1("simulation_type", StrV("adjoint")) >>

NextHeader ==
    \/ AddConfiguration(HeaderConfigs)
    \/ AddEvents(<< <<EventDict(1, 0)>> >>)
    \/ AddStations(<< <<StationDict("KO.ADVT", 10)>> >>)
    \/ Write(<<"ses3d_4_1">>)

SpecHeader == Init /\ [][NextHeader]_vars

\* The mesh of ses3d_4_1 (latitude and longitude 0 to 4): a station inside
\* it, one on its corner, one north of it and one east of it, and an event
\* inside it, one on its edge and one north of it.
NextRecfile ==
    \/ AddConfiguration(<<FullConfig>>)
    \/ AddEvents(<< <<EventDict(1, 0)>>, <<EventWith("longitude", StrV("4"))>>,
                    <<EventWith("latitude", IntV(5))>> >>)
    \/ AddStations(<< <<StationDict("KO.ADVT", 10)>>,
                      <<StationWith("A.B.C", "latitude", IntV(4))>>,
                      <<StationWith("KO.AFSR", "latitude", StrV("5")),
                        StationWith("NODOT", "longitude", IntV(5))>> >>)
    \/ Write(<<"ses3d_4_1">>)

SpecRecfile == Init /\ [][NextRecfile]_vars

\* ------------------------------------------------------------------------
\* What the properties below speak about
\* ------------------------------------------------------------------------

SchemaKeys(entries) == {entries[i].name : i \in 1..Len(entries)}

SchemaEntry(entries, k) == entries[CHOOSE i \in 1..Len(entries) : entries[i].name = k]

RequiredOf(format) == WriteFunctions[format].required_config

DefaultOf(format) == WriteFunctions[format].default_config

\* The last call was write with a registered format.
WroteWith == last.op = "write" /\ last.format \in Formats

\* The required keys the caller's configuration lacked.
MissingKeys == SchemaKeys(RequiredOf(last.format)) \ DOMAIN last.pre.config

\* The required keys whose caller value its conversion function rejects.
BadRequiredKeys ==
    {k \in SchemaKeys(RequiredOf(last.format)) \cap DOMAIN last.pre.config :
        ~Convert(SchemaEntry(RequiredOf(last.format), k).fct, last.pre.config[k]).ok}

\* What the conversion function of a default key is to be applied to.
InputOf(k) ==
    IF k \in DOMAIN last.pre.config THEN last.pre.config[k]
    ELSE SchemaEntry(DefaultOf(last.format), k).default

\* The default keys whose input its conversion function rejects.
BadDefaultKeys ==
    {k \in SchemaKeys(DefaultOf(last.format)) :
        ~Convert(SchemaEntry(DefaultOf(last.format), k).fct, InputOf(k)).ok}

\* The caller's keys neither schema knows.
ExtraKeys ==
    DOMAIN last.pre.config
        \ (SchemaKeys(RequiredOf(last.format)) \cup SchemaKeys(DefaultOf(last.format)))

\* ------------------------------------------------------------------------
\* C1
\* ------------------------------------------------------------------------

\* C1 as stated: whenever the caller's configuration lacks a required key of
\* a registered format, write raises an error that names the format and a
\* missing key, and the backend is not invoked.
C1_MissingKeyNamed ==
    (WroteWith /\ MissingKeys # {}) =>
        /\ last.raised /\ ~last.invoked
        /\ last.format \in last.mentions
        /\ \E k \in MissingKeys : k \in last.mentions

\* C1, amended: whenever the caller's configuration lacks a required key of
\* a registered format, write raises and the backend is not invoked; the
\* error names the format and a missing key, or else it names a required key
\* that is present and whose value its conversion function rejects (the loop
\* met that key before any missing one).
C1_MissingOrUnconvertibleNamed ==
    (WroteWith /\ MissingKeys # {}) =>
        /\ last.raised /\ ~last.invoked
        /\ \/ last.format \in last.mentions /\ \E k \in MissingKeys : k \in last.mentions
           \/ \E k \in BadRequiredKeys : k \in last.mentions

\* A write that found some required keys, all of them convertible, and missed
\* others.
C1_Witness ==
    /\ WroteWith /\ MissingKeys # {} /\ BadRequiredKeys = {}
    /\ SchemaKeys(RequiredOf(last.format)) \cap DOMAIN last.pre.config # {}
    /\ last.raised /\ last.format \in last.mentions

\* ------------------------------------------------------------------------
\* C2
\* ------------------------------------------------------------------------

\* C2: in write, a conversion function that raises on its input (the caller's
\* value, or the schema default when the caller gave none) makes write fail
\* with an error naming that key; no key is skipped, no bad caller value is
\* replaced by the default, and the backend is not invoked.
C2_ConversionFailureIsFatal ==
    WroteWith =>
        /\ (BadRequiredKeys \cup BadDefaultKeys # {}) => (last.raised /\ ~last.invoked)
        /\ \A k \in last.attempted \cap (BadRequiredKeys \cup BadDefaultKeys) :
               last.raised /\ ~last.invoked /\ k \in last.mentions
        /\ last.invoked =>
               /\ BadRequiredKeys \cup BadDefaultKeys = {}
               /\ last.attempted = SchemaKeys(RequiredOf(last.format))
                                       \cup SchemaKeys(DefaultOf(last.format))
               /\ \A k \in SchemaKeys(DefaultOf(last.format)) \cap DOMAIN last.pre.config :
                      last.handed_config[k] =
                          Convert(SchemaEntry(DefaultOf(last.format), k).fct,
                                  last.pre.config[k]).val

\* A write that failed on the caller's value of a default key, after all
\* required keys were there and converted.
C2_Witness ==
    /\ WroteWith /\ last.raised /\ MissingKeys = {} /\ BadRequiredKeys = {}
    /\ \E k \in BadDefaultKeys : k \in DOMAIN last.pre.config /\ k \in last.mentions

\* ------------------------------------------------------------------------
\* C3
\* ------------------------------------------------------------------------

\* C3: the configuration handed to the backend holds, for every default key,
\* the conversion of the caller's value when the caller gave one and of the
\* schema default otherwise, and for every required key the conversion of the
\* caller's value.
C3_HandedConfiguration ==
    (WroteWith /\ last.invoked) =>
        /\ \A k \in SchemaKeys(DefaultOf(last.format)) :
               /\ k \in DOMAIN last.handed_config
               /\ last.handed_config[k] =
                      Convert(SchemaEntry(DefaultOf(last.format), k).fct, InputOf(k)).val
        /\ \A k \in SchemaKeys(RequiredOf(last.format)) :
               /\ k \in DOMAIN last.handed_config
               /\ last.handed_config[k] =
                      Convert(SchemaEntry(RequiredOf(last.format), k).fct,
                              last.pre.config[k]).val

\* A backend invoked with a default key the caller gave (and whose
\* conversion changed the value), one the caller did not give, and a
\* required key whose conversion changed the value.
C3_Witness ==
    /\ WroteWith /\ last.invoked
    /\ \E k \in SchemaKeys(DefaultOf(last.format)) \cap DOMAIN last.pre.config :
           last.handed_config[k] # last.pre.config[k]
    /\ \E k \in SchemaKeys(DefaultOf(last.format)) : k \notin DOMAIN last.pre.config
    /\ \E k \in SchemaKeys(RequiredOf(last.format)) :
           last.handed_config[k] # last.pre.config[k]

\* ------------------------------------------------------------------------
\* C8
\* ------------------------------------------------------------------------

\* C8: asking write or get_config_params for a name that is not registered
\* fails with an error whose message enumerates the valid format names, and
\* in write nothing was validated or rendered before.
C8_UnknownFormatListsNames ==
    (last.op \in {"write", "get_config_params"} /\ last.format \notin Formats) =>
        /\ last.raised
        /\ Formats \subseteq last.mentions
        /\ ~last.invoked /\ last.attempted = {}

\* ------------------------------------------------------------------------
\* C10
\* ------------------------------------------------------------------------

\* C10: the caller's keys that neither schema of the chosen backend knows are
\* not converted, are never what write complains about, and reach the backend
\* with their values unchanged.
C10_ExtraKeysPassThrough ==
    WroteWith =>
        \A k \in ExtraKeys :
            /\ k \notin last.attempted
            /\ k \notin last.mentions
            /\ last.invoked =>
                   (k \in DOMAIN last.handed_config
                        /\ last.handed_config[k] = last.pre.config[k])

\* A backend invoked with a key no schema of any backend knows.
C10_Witness ==
    /\ WroteWith /\ last.invoked
    /\ "my_note" \in ExtraKeys
    /\ last.handed_config["my_note"] = ListV(<<StrV("ab"), BoolV(TRUE)>>)

\* ------------------------------------------------------------------------
\* C4
\* ------------------------------------------------------------------------

\* C4: write never changes the generator: after a call to write, whether it
\* returned or raised, the configuration, the events (their _event_id
\* included), the stations and both filters are what they were before the
\* call, whatever the backend did to the configuration it was handed.
C4_WriteLeavesGenerator == last.op = "write" => Generator = last.pre

\* A write with ses3d_4_1 on a generator holding an event with an _event_id,
\* in which the backend negated the rotation angle it was handed.
C4_Witness ==
    /\ WroteWith /\ last.invoked /\ ~last.raised
    /\ last.format = "ses3d_4_1"
    /\ last.final_config["rotation_angle_in_degree"]
           # last.handed_config["rotation_angle_in_degree"]
    /\ \E i \in 1..Len(events) : "_event_id" \in DOMAIN events[i]

\* ------------------------------------------------------------------------
\* C5
\* ------------------------------------------------------------------------

\* The distinct events that pass the event filter (write leaves the
\* generator as it found it, so after a write these are the call's).
DistinctFilteredEvents == unique_list(filtered_events)

\* C5: with each of the four backends, write raises and returns no file
\* mapping whenever the number of distinct events that pass the event filter
\* is zero or is two or more.
C5_SingleEventOnly ==
    (WroteWith /\ Len(DistinctFilteredEvents) # 1) =>
        (last.raised /\ last.files = EmptyDict)

\* A backend invoked with two events.
C5_Witness ==
    /\ WroteWith /\ last.invoked /\ last.raised
    /\ Len(last.handed_events) = 2

\* ------------------------------------------------------------------------
\* C6
\* ------------------------------------------------------------------------

SpecfemFormats ==
    {"SPECFEM3D_CARTESIAN_9e2aad47d52f97", "SPECFEM3D_GLOBE_CEM", "SPECFEM3D_GLOBE_EPOS"}

\* C6: with all required keys supplied, station ids of the form
\* network.station and exactly one event accepted by add_events, write with a
\* SPECFEM backend succeeds and returns Par_file, CMTSOLUTION and STATIONS,
\* whatever the event's moment tensor, zero components included.
C6_SpecfemWritesAnySingleEvent ==
    (/\ WroteWith /\ last.format \in SpecfemFormats
     /\ MissingKeys = {} /\ BadRequiredKeys = {} /\ BadDefaultKeys = {}
     /\ \A i \in 1..Len(stations) : Len(SplitDot(stations[i]["id"].s)) = 2
     /\ Len(events) = 1 /\ Len(DistinctFilteredEvents) = 1) =>
        /\ ~last.raised
        /\ {"Par_file", "CMTSOLUTION", "STATIONS"} \subseteq DOMAIN last.files

\* ------------------------------------------------------------------------
\* C7
\* ------------------------------------------------------------------------

\* C7: after any add_stations calls the station list holds at most one
\* record per station id, and that record is the last one added with the id
\* (every record a returning call added is in the list afterwards).
C7_OneRecordPerId ==
    /\ \A i, j \in 1..Len(stations) : stations[i]["id"] = stations[j]["id"] => i = j
    /\ (last.op = "add_stations" /\ ~last.raised) =>
           \A a \in 1..Len(last.added) : \E i \in 1..Len(stations) : stations[i] = last.added[a]

\* ------------------------------------------------------------------------
\* C9
\* ------------------------------------------------------------------------

\* C9: two successive calls of write with the same format, with no other
\* call on the generator in between, end alike and return equal file
\* mappings.
C9_RepeatedWriteSameFiles ==
    (last.op = "write" /\ prev.op = "write") =>
        (last.raised = prev.raised /\ last.files = prev.files)

\* A second write with ses3d_4_1 in a row that returned, the rotation angle
\* set and negated by the backend in both.
C9_Witness ==
    /\ last.op = "write" /\ prev.op = "write" /\ ~last.raised
    /\ last.format = "ses3d_4_1"
    /\ "rotation_angle_in_degree" \in DOMAIN last.pre.config
    /\ last.pre.config["rotation_angle_in_degree"] = IntV(1)
    /\ last.final_config["rotation_angle_in_degree"] = FloatV(-2)

\* ------------------------------------------------------------------------
\* C11
\* ------------------------------------------------------------------------

\* C11: the event list never holds two equal event records, in any state
\* reached by add_events calls, those that raise on a later item of their
\* argument included.
C11_NoEqualEvents == \A i, j \in 1..Len(events) : events[i] = events[j] => i = j

\* ------------------------------------------------------------------------
\* C12
\* ------------------------------------------------------------------------

TensorKeys == {"m_rr", "m_tt", "m_pp", "m_rt", "m_rp", "m_tp"}

\* The required keys the event dictionary d lacks.
MissingEventKeys(d) == {required_keys[i] : i \in 1..Len(required_keys)} \ DOMAIN d

\* The keys of d whose value is no number and, for origin_time, no time.
BadEventValues(d) ==
    {k \in FloatKeys \cap DOMAIN d : ~PyFloat(d[k]).ok}
        \cup {k \in {"origin_time"} \cap DOMAIN d : ~UTCDateTime(d[k]).ok}

\* The last call was add_events on event dictionaries.
GaveEventDicts ==
    /\ last.op = "add_events" /\ last.given # <<>>
    /\ \A i \in 1..Len(last.given) : last.given[i].kind = "dict"

\* The event list holds the record of the dictionary d: its numbers as
\* floats.
EventStored(d) ==
    \E j \in 1..Len(events) :
        /\ "_event_id" \notin DOMAIN events[j]
        /\ \A k \in FloatKeys : events[j][k] = PyFloat(d[k]).val

GaveStationDicts ==
    /\ last.op = "add_stations" /\ last.given # <<>>
    /\ \A i \in 1..Len(last.given) : last.given[i].kind = "dict"

\* The dictionary d lacks one of the four required keys.
StationLacksKey(d) == {"id", "latitude", "longitude", "elevation_in_m"} \ DOMAIN d # {}

\* The coordinates of d that float() rejects.
BadCoordinates(d) ==
    {k \in {"latitude", "longitude", "elevation_in_m"} \cap DOMAIN d : ~PyFloat(d[k]).ok}

\* The last call was given a station dictionary that is not acceptable.
GaveBadStation ==
    /\ GaveStationDicts
    /\ \E i \in 1..Len(last.given) :
           StationLacksKey(last.given[i].d) \/ BadCoordinates(last.given[i].d) # {}

\* C13 as stated: add_stations on a station dictionary that lacks a required
\* key, or whose coordinates float() rejects, raises ValueError and leaves
\* the station list exactly as it was, whatever else the call was given.
C13_BadStationValueError ==
    GaveBadStation =>
        (last.raised /\ last.exc = "ValueError" /\ stations = last.pre.stations)

\* C13, amended: such a call raises and leaves the station list exactly as
\* it was; the exception is ValueError, or TypeError when the dictionary has
\* all four keys and a coordinate that is neither a number nor a string.
C13_BadStationRejectedWhole ==
    GaveBadStation =>
        /\ last.raised /\ stations = last.pre.stations
        /\ last.exc \in {"ValueError", "TypeError"}
        /\ last.exc = "TypeError" =>
               \E i \in 1..Len(last.given) :
                   /\ ~StationLacksKey(last.given[i].d)
                   /\ \E k \in BadCoordinates(last.given[i].d) : last.given[i].d[k].t # "str"

\* A call given a good station, not stored before, and then a bad one: it
\* raised and the good one was not added.
C13_Witness ==
    /\ GaveBadStation /\ last.raised /\ Len(last.given) = 2
    /\ StationFromDict(last.given[1].d).ok
    /\ \A j \in 1..Len(stations) : stations[j]["id"] # last.given[1].d["id"]

\* ------------------------------------------------------------------------
\* C14
\* ------------------------------------------------------------------------

\* C14: every stored station has a local_depth_in_m, and a call given a
\* station dictionary whose local_depth_in_m is present but rejected by
\* float() raises instead of storing the station with a depth of 0.0.
C14_DepthDefaultedOnlyWhenAbsent ==
    /\ \A j \in 1..Len(stations) : "local_depth_in_m" \in DOMAIN stations[j]
    /\ (/\ GaveStationDicts
        /\ \E i \in 1..Len(last.given) :
               /\ "local_depth_in_m" \in DOMAIN last.given[i].d
               /\ ~PyFloat(last.given[i].d["local_depth_in_m"]).ok) => last.raised

\* ------------------------------------------------------------------------
\* C15
\* ------------------------------------------------------------------------

\* The station list after add_stations was called once for each of the
\* items from item i on, in their order, on a generator holding stored.
RECURSIVE OnePerCall(_, _, _)
OnePerCall(stored, items, i) ==
    IF i > Len(items) THEN stored
    ELSE LET r == AddStationsLoop(<<items[i]>>, 1, [id \in {} |-> EmptyDict])
         IN OnePerCall(IF r.ok THEN AddStationsHelper(stored, DictValues(r.val, iterSeed))
                       ELSE stored, items, i + 1)

\* C15: an add_stations call given a list of station dictionaries leaves
\* the station list holding the same set of records as one call per
\* dictionary, in the same order, would have.
C15_ListAsOnePerCall ==
    (GaveStationDicts /\ ~last.raised) =>
        {stations[j] : j \in 1..Len(stations)}
            = {OnePerCall(last.pre.stations, last.given, 1)[j] :
                   j \in 1..Len(OnePerCall(last.pre.stations, last.given, 1))}

\* ------------------------------------------------------------------------
\* C16
\* ------------------------------------------------------------------------

\* The station's id matches a pattern of the station filter.
MatchesSomePattern(station) ==
    \E p \in {station_filter.l[i].s : i \in 1..Len(station_filter.l)} :
        Fnmatch(station["id"].s, p)

\* C16: the filtered stations are the stations when the station filter is
\* None or empty, and otherwise exactly the stations whose id matches a
\* pattern of the filter, in stored order; setting the filter, to whatever
\* value, leaves the station list as it was.
C16_StationFilterSelects ==
    /\ ~FilterIsSet(station_filter) => filtered_stations = stations
    /\ FilterIsSet(station_filter) => filtered_stations = SelectSeq(stations, MatchesSomePattern)
    /\ last.op = "station_filter" =>
           /\ stations = last.pre.stations
           /\ station_filter = IF last.raised THEN last.pre.station_filter ELSE last.given[1]

\* The filter cleared after it was set and had hidden a station: every
\* station is back.
C16_Witness ==
    /\ last.op = "station_filter" /\ ~last.raised /\ last.given = <<NoneV>>
    /\ FilterIsSet(last.pre.station_filter)
    /\ \E j \in 1..Len(stations) :
           \A i \in 1..Len(last.pre.station_filter.l) :
               ~Fnmatch(stations[j]["id"].s, last.pre.station_filter.l[i].s)
    /\ Len(stations) = 3 /\ filtered_stations = stations

\* ------------------------------------------------------------------------
\* C17
\* ------------------------------------------------------------------------

\* The event has an _event_id that equals, ignoring case, an entry of the
\* event filter.
MatchesSomeId(event) ==
    /\ "_event_id" \in DOMAIN event
    /\ Lower(event["_event_id"].s)
           \in {Lower(event_filter.l[i].s) : i \in 1..Len(event_filter.l)}

\* C17: with a non-empty event filter the filtered events are exactly the
\* stored events whose _event_id equals, ignoring case, an entry of the
\* filter, so none of them lacks an _event_id; with the filter None or empty
\* they are all stored events; setting the filter leaves the event list as
\* it was.
C17_EventFilterSelects ==
    /\ ~FilterIsSet(event_filter) => filtered_events = events
    /\ FilterIsSet(event_filter) =>
           /\ filtered_events = SelectSeq(events, MatchesSomeId)
           /\ \A j \in 1..Len(filtered_events) : "_event_id" \in DOMAIN filtered_events[j]
    /\ last.op = "event_filter" =>
           /\ events = last.pre.events
           /\ event_filter = IF last.raised THEN last.pre.event_filter ELSE last.given[1]

\* A filter written in capitals that keeps the event object with that id
\* and removes an event object with another id and an event added as a
\* dictionary.
C17_Witness ==
    /\ FilterIsSet(event_filter) /\ event_filter.l[1].s = "SMI:EV1"
    /\ Len(events) = 3 /\ Len(filtered_events) = 1
    /\ filtered_events[1]["_event_id"].s = "smi:ev1"
    /\ \E j \in 1..Len(events) : "_event_id" \notin DOMAIN events[j]

\* ------------------------------------------------------------------------
\* C18
\* ------------------------------------------------------------------------

\* C18: no event handed to a backend has an _event_id key; write leaves the
\* stored events, their _event_id included, as they were, so that an event
\* filter set right after a write selects every stored event whose id it
\* names.
C18_EventIdStrippedForBackendOnly ==
    /\ (WroteWith /\ last.invoked) =>
           \A i \in 1..Len(last.handed_events) : "_event_id" \notin DOMAIN last.handed_events[i]
    /\ last.op = "write" => events = last.pre.events
    /\ (last.op = "event_filter" /\ prev.op = "write" /\ FilterIsSet(event_filter)) =>
           \A j \in 1..Len(last.pre.events) :
               ("_event_id" \in DOMAIN last.pre.events[j]
                    /\ \E i \in 1..Len(event_filter.l) :
                           Lower(last.pre.events[j]["_event_id"].s) = Lower(event_filter.l[i].s))
                   => \E k \in 1..Len(filtered_events) : filtered_events[k] = last.pre.events[j]

\* A write that handed the one stored event, an event object, to the
\* backend and returned, and then a filter naming the event's id, which
\* selects it.
C18_Witness ==
    /\ last.op = "event_filter" /\ prev.op = "write" /\ ~prev.raised
    /\ FilterIsSet(event_filter)
    /\ Len(events) = 1 /\ "_event_id" \in DOMAIN events[1]
    /\ filtered_events = events

\* ------------------------------------------------------------------------
\* C19
\* ------------------------------------------------------------------------

\* The stations that pass the filter, had they been added in the opposite
\* order.
AddedInReverse ==
    [i \in 1..Len(filtered_stations) |-> filtered_stations[Len(filtered_stations) + 1 - i]]

\* The line of a station: station code, network code, latitude, longitude,
\* elevation, burial depth.
ColumnsOf(station) ==
    <<SplitDot(station["id"].s)[2], SplitDot(station["id"].s)[1], NumStr(station["latitude"]),
      NumStr(station["longitude"]), NumStr(station["elevation_in_m"]),
      NumStr(station["local_depth_in_m"])>>

\* C19: the stations handed to a backend are the distinct stations that
\* pass the station filter, in ascending order of id and the same whatever
\* the order in which they were added; the STATIONS file of a SPECFEM
\* backend has one line per handed station, in that order, with the columns
\* station code, network code, latitude, longitude, elevation, burial depth.
C19_StationsSortedById ==
    (WroteWith /\ last.invoked) =>
        /\ {last.handed_stations[i] : i \in 1..Len(last.handed_stations)}
               = {filtered_stations[i] : i \in 1..Len(filtered_stations)}
        /\ Len(last.handed_stations)
               = Cardinality({filtered_stations[i] : i \in 1..Len(filtered_stations)})
        /\ \A i, j \in 1..Len(last.handed_stations) :
               i < j => IdRank(last.handed_stations[i]["id"].s)
                            <= IdRank(last.handed_stations[j]["id"].s)
        /\ last.handed_stations = SortedById(unique_list(AddedInReverse))
        /\ (last.format \in SpecfemFormats /\ ~last.raised) =>
               /\ Len(last.files["STATIONS"]) = Len(last.handed_stations)
               /\ \A i \in 1..Len(last.handed_stations) :
                      LET c == ColumnsOf(last.handed_stations[i])
                      IN last.files["STATIONS"][i]
                             = c[1] \o " " \o c[2] \o " " \o c[3] \o " " \o c[4] \o " "
                                   \o c[5] \o " " \o c[6]

\* ------------------------------------------------------------------------
\* C20
\* ------------------------------------------------------------------------

KeyFormats == {"ses3d_4_1", "SPECFEM3D_CARTESIAN_9e2aad47d52f97"}

\* C20: for ses3d_4_1 and SPECFEM3D_CARTESIAN_9e2aad47d52f97 every key the
\* backend's write function reads is a key of the backend's required or
\* default schema, and a write on a caller configuration that has the
\* required keys, and be it nothing but them, reaches the backend and does
\* not fail there on an absent key.
C20_BackendReadsSchemaKeysOnly ==
    /\ \A f \in KeyFormats :
           SeqSet(ReadsOf(f)) \subseteq SeqSet(RequiredKeysOf(f)) \cup SeqSet(DefaultKeysOf(f))
    /\ (/\ last.op = "write_keys"
        /\ SeqSet(RequiredKeysOf(last.format)) \subseteq DOMAIN last.pre.config)
           => (last.invoked /\ ~last.raised
                   /\ last.exc \notin {"AttributeError", "KeyError"}
                   /\ SeqSet(ReadsOf(last.format)) \subseteq last.attempted)

\* A write with ses3d_4_1 on a caller configuration of exactly the sixteen
\* required keys.
C20_Witness ==
    /\ last.op = "write_keys" /\ last.format = "ses3d_4_1"
    /\ DOMAIN last.pre.config = SeqSet(Ses3dRequiredKeys)
    /\ last.invoked /\ ~last.raised

\* ------------------------------------------------------------------------
\* C21
\* ------------------------------------------------------------------------

\* C21: a backend's write treats the configuration object it receives as
\* read-only: when it returns or raises, that object has the keys and the
\* values it had when the backend was called, for each of the four backends.
C21_BackendLeavesConfiguration ==
    (WroteWith /\ last.invoked) => last.final_config = last.handed_config

\* ------------------------------------------------------------------------
\* C22
\* ------------------------------------------------------------------------

\* The parts of an id before and after its first ".".
AtFirstDot(id) ==
    CASE id = "KO.ADVT" -> <<"KO", "ADVT">>
      [] id = "KO.AFSR" -> <<"KO", "AFSR">>
      [] id = "A.B.C" -> <<"A", "B.C">>

\* C22: for every station a backend writes, the network and station codes
\* written are the parts of the id before and after its first ".", so that
\* network + "." + station is the id again, also for an id with more than
\* one ".": in the STATIONS line of a SPECFEM backend (station code first)
\* and in the name line of the ses3d_4_1 recfile.
C22_CodesSplitAtFirstDot ==
    (WroteWith /\ last.invoked /\ ~last.raised) =>
        \A i \in 1..Len(last.handed_stations) :
            LET station == last.handed_stations[i]
                code == AtFirstDot(station["id"].s)
            IN /\ code[1] \o "." \o code[2] = station["id"].s
               /\ last.format \in SpecfemFormats =>
                      last.files["STATIONS"][i]
                          = code[2] \o " " \o code[1] \o " " \o NumStr(station["latitude"])
                                \o " " \o NumStr(station["longitude"]) \o " "
                                \o NumStr(station["elevation_in_m"]) \o " "
                                \o NumStr(station["local_depth_in_m"])
               /\ last.format = "ses3d_4_1" =>
                      \E j \in 1..Len(last.files["recfile_1"]) :
                          last.files["recfile_1"][j]
                              = PadRight(code[1], 2) \o "." \o PadRight(code[2], 5) \o ".___"

\* ------------------------------------------------------------------------
\* C23
\* ------------------------------------------------------------------------

\* The last call was write with an output_dir argument, None ("") included.
WroteTo == last.op = "write" /\ last.given # <<>>

\* Write raised in the format lookup, in the resolution of the
\* configuration or in the backend: no file mapping came back.
RaisedBeforeOutput == last.raised /\ (~last.invoked \/ last.files = EmptyDict)

\* The paths write is to fill: the directory and one file per entry.
OutputPaths ==
    {last.given[1].s} \cup {PathJoin(last.given[1].s, f) : f \in DOMAIN last.files}

\* C23: whenever write raises in the format lookup, in the resolution of the
\* configuration or in the backend, the file system is what it was before the
\* call (output_dir neither created nor modified); the file system changes
\* only once the backend has returned its file mapping; and when write
\* returns with an output_dir, the directory holds exactly the entries of the
\* returned mapping as files, everything else being as before.
C23_NoPartialOutput ==
    WroteTo =>
        /\ RaisedBeforeOutput => disk = last.pre_disk
        /\ disk # last.pre_disk => (last.invoked /\ last.files # EmptyDict)
        /\ (~last.raised /\ last.given[1].s # "") =>
               /\ disk[last.given[1].s] = DirNode
               /\ \A f \in DOMAIN last.files :
                      disk[PathJoin(last.given[1].s, f)] = FileNode(last.files[f])
               /\ DOMAIN last.pre_disk \subseteq DOMAIN disk
               /\ \A p \in DOMAIN disk \ OutputPaths :
                      p \in DOMAIN last.pre_disk /\ disk[p] = last.pre_disk[p]

\* A write into a directory that does not exist yet, in which the backend
\* raised: the directory still does not exist.
C23_Witness ==
    /\ WroteTo /\ last.given = <<StrV("out")>>
    /\ last.invoked /\ last.raised /\ last.files = EmptyDict
    /\ "out" \notin DOMAIN disk

\* ------------------------------------------------------------------------
\* C24
\* ------------------------------------------------------------------------

\* C24: resolution is idempotent: resolving for the same backend the
\* configuration that resolution produced succeeds and yields an equal
\* configuration, whatever the order of the schema's entries (every
\* conversion function maps its own outputs to themselves); and in the
\* result a defaulted key the caller gave holds the conversion of the
\* caller's value, not that of the schema default.
C24_ResolutionIdempotent ==
    (WroteWith /\ last.invoked) =>
        /\ \A seed \in 0..MaxSeed :
               /\ ResolveConfig(last.format, last.handed_config, seed).status = "ok"
               /\ ResolveConfig(last.format, last.handed_config, seed).config
                      = last.handed_config
        /\ \A k \in SchemaKeys(RequiredOf(last.format)) \cup SchemaKeys(DefaultOf(last.format)) :
               LET fct == IF k \in SchemaKeys(RequiredOf(last.format))
                          THEN SchemaEntry(RequiredOf(last.format), k).fct
                          ELSE SchemaEntry(DefaultOf(last.format), k).fct
               IN Convert(fct, last.handed_config[k]) = Ok(last.handed_config[k])
        /\ \A k \in SchemaKeys(DefaultOf(last.format)) \cap DOMAIN last.pre.config :
               last.handed_config[k]
                   = Convert(SchemaEntry(DefaultOf(last.format), k).fct, last.pre.config[k]).val

\* A resolution that changed a value by conversion and in which the caller's
\* value of a defaulted key differs from what the schema default gives.
C24_Witness ==
    /\ WroteWith /\ last.invoked
    /\ \E k \in DOMAIN last.pre.config : last.handed_config[k] # last.pre.config[k]
    /\ \E k \in SchemaKeys(DefaultOf(last.format)) \cap DOMAIN last.pre.config :
           last.handed_config[k]
               # Convert(SchemaEntry(DefaultOf(last.format), k).fct,
                         SchemaEntry(DefaultOf(last.format), k).default).val

\* ------------------------------------------------------------------------
\* C25
\* ------------------------------------------------------------------------

\* A module that imports without error and has a callable write and both
\* schemas.
Registrable(text) ==
    /\ ~Has(text, "sys.exit()") /\ ~Has(text, "raise ImportError")
    /\ Has(text, "def write(config, events, stations):")
    /\ Has(text, "REQUIRED_CONFIGURATION = {}")
    /\ Has(text, "DEFAULT_CONFIGURATION = {}")

\* The files backends/write_*.py of a file system.
WriteScripts(d) == {p \in DOMAIN d \cap DOMAIN BackendsDir : BackendsDir[p] # ""}

\* C25: the registry holds exactly the modules backends/write_*.py that
\* import without error and have a callable write, REQUIRED_CONFIGURATION
\* and DEFAULT_CONFIGURATION, each under its file name without "write_" and
\* ".py"; any other module is skipped: get_available_formats never fails,
\* and get_config_params for a registrable module never fails, whatever
\* other modules the directory holds.
C25_RegistryOfGoodModules ==
    /\ last.op = "get_available_formats" =>
           /\ ~last.raised
           /\ last.mentions = {BackendsDir[p] : p \in {q \in WriteScripts(last.pre_disk) :
                                                          Registrable(last.pre_disk[q].text)}}
    /\ (/\ last.op = "get_config_params"
        /\ \E p \in WriteScripts(last.pre_disk) :
               BackendsDir[p] = last.format /\ Registrable(last.pre_disk[p].text))
           => ~last.raised

\* ------------------------------------------------------------------------
\* C26
\* ------------------------------------------------------------------------

\* C26: when the SPECFEM3D_GLOBE_CEM backend returns, its mapping has an STF
\* file exactly if the SOURCE_TIME_FUNCTION it was handed is non-empty, its
\* Par_file sets EXTERNAL_SOURCE_TIME_FUNCTION to .true. exactly in that case
\* and to .false. otherwise, and without a source time function the files
\* are exactly Par_file, CMTSOLUTION and STATIONS.
C26_ExternalSourceTimeFunction ==
    (WroteWith /\ last.format = "SPECFEM3D_GLOBE_CEM" /\ last.invoked /\ ~last.raised) =>
        LET given == last.handed_config["SOURCE_TIME_FUNCTION"].l # <<>>
        IN /\ ("STF" \in DOMAIN last.files) <=> given
           /\ Has(last.files["Par_file"], "EXTERNAL_SOURCE_TIME_FUNCTION = .true.") <=> given
           /\ Has(last.files["Par_file"], "EXTERNAL_SOURCE_TIME_FUNCTION = .false.") <=> ~given
           /\ ~given => DOMAIN last.files = {"Par_file", "CMTSOLUTION", "STATIONS"}
           /\ given => DOMAIN last.files = {"Par_file", "CMTSOLUTION", "STATIONS", "STF"}

\* The backend returned with a source time function the caller gave.
C26_Witness ==
    /\ WroteWith /\ last.format = "SPECFEM3D_GLOBE_CEM" /\ last.invoked /\ ~last.raised
    /\ "SOURCE_TIME_FUNCTION" \in DOMAIN last.pre.config
    /\ "STF" \in DOMAIN last.files

\* ------------------------------------------------------------------------
\* C27
\* ------------------------------------------------------------------------

\* The last call was write("ses3d_4_1") and the backend was called.
WroteSes3d == WroteWith /\ last.format = "ses3d_4_1" /\ last.invoked

\* The stf_header the caller configured is a plain string, or a list of
\* more than four entries.
InvalidHeader(header) == header.t = "str" \/ (header.t = "list" /\ Len(header.l) > 4)

\* C27: whenever write("ses3d_4_1") reaches the backend with an stf_header
\* the caller gave as a plain string (of whatever length) or as a list of
\* more than four entries, it raises ValueError, and no stf file comes back
\* that has one header line per character of the string.
C27_InvalidHeaderRaises ==
    (WroteSes3d /\ "stf_header" \in DOMAIN last.pre.config) =>
        LET header == last.pre.config["stf_header"]
        IN /\ InvalidHeader(header) => (last.raised /\ last.exc = "ValueError")
           /\ (header.t = "str" /\ "stf" \in DOMAIN last.files) =>
                  \E i \in 1..Len(Chars(header.s)) :
                      last.files["stf"][i] # "# " \o Chars(header.s)[i]

\* ------------------------------------------------------------------------
\* C28
\* ------------------------------------------------------------------------

\* The text of a file ends with "\n\n": after its last line come two empty
\* ones.
EndsWithTwoNewlines(lines) ==
    /\ Len(lines) >= 3
    /\ lines[Len(lines)] = ""
    /\ lines[Len(lines) - 1] = ""

\* C28: the mapping the ses3d_4_1 backend returns has the six files setup,
\* event_<tag>, event_list, recfile_<tag>, relax and stf, and every one of
\* them ends with two newline characters.
C28_FilesEndWithTwoNewlines ==
    (WroteSes3d /\ ~last.raised) =>
        LET tag == last.handed_config["event_tag"].s
        IN /\ DOMAIN last.files = {"setup", "event_" \o tag, "event_list", "recfile_" \o tag,
                                   "relax", "stf"}
           /\ \A f \in DOMAIN last.files : EndsWithTwoNewlines(last.files[f])

\* The backend returned its files for two stations inside the mesh.
C28_Witness ==
    /\ WroteSes3d /\ ~last.raised
    /\ Len(last.handed_stations) >= 2
    /\ last.files["recfile_1"][1] = "2"
    /\ last.files["stf"][Len(last.files["stf"]) - 2] # ""

\* ------------------------------------------------------------------------
\* C29
\* ------------------------------------------------------------------------

\* The simulation_type values the configuration schema documents, with the
\* adjoint_flag each stands for.
DocumentedSimulationTypes ==
    [k \in {"normal simulation", "adjoint forward", "adjoint backward"} |->
       CASE k = "normal simulation" -> 0 [] k = "adjoint forward" -> 1
         [] k = "adjoint backward" -> 2]

\* The setup file gives this adjoint_flag.
SetupHasFlag(lines, flag) ==
    \E i \in 1..(Len(lines) - 1) : lines[i] = "ADJOINT PARAMETERS" /\ lines[i + 1] = IntStr(flag)

\* C29: write("ses3d_4_1"), given a valid header, one event inside the mesh
\* and a simulation_type the schema documents ("normal simulation",
\* "adjoint forward", "adjoint backward"), returns a setup file whose
\* adjoint_flag is 0, 1 or 2 respectively; given any other simulation_type
\* it raises ValueError.
C29_DocumentedSimulationTypes ==
    (WroteSes3d /\ Len(last.handed_config["stf_header"].l) <= 4
                /\ Len(last.handed_events) = 1) =>
        LET given == last.handed_config["simulation_type"].s
        IN IF given \in DOMAIN DocumentedSimulationTypes
           THEN /\ ~last.raised
                /\ SetupHasFlag(last.files["setup"], DocumentedSimulationTypes[given])
           ELSE last.raised /\ last.exc = "ValueError"

\* ------------------------------------------------------------------------
\* C30
\* ------------------------------------------------------------------------

\* A point (of an unrotated domain) lies within the mesh, bounds included.
InsideMesh(cfg, point) ==
    /\ point["latitude"].n >= cfg["mesh_min_latitude"].n
    /\ point["latitude"].n <= cfg["mesh_max_latitude"].n
    /\ point["longitude"].n >= cfg["mesh_min_longitude"].n
    /\ point["longitude"].n <= cfg["mesh_max_longitude"].n

\* The stations handed to the backend that lie within the mesh.
StationsInside ==
    {i \in 1..Len(last.handed_stations) :
         InsideMesh(last.handed_config, last.handed_stations[i])}

\* The first recfile line of a station whose id has a ".".
NameLine(id) == PadRight(SplitDot(id)[1], 2) \o "." \o PadRight(SplitDot(id)[2], 5) \o ".___"

\* C30: when write("ses3d_4_1") hands the backend one event, an event
\* outside the inclusive mesh bounds makes it raise ValueError; otherwise the
\* first line of the recfile is the number of stations within the inclusive
\* bounds, exactly two lines per such station follow it (before the closing
\* newlines), a station within the bounds has its name line in the file and
\* a station outside them has none and raises nothing.
C30_RecfileCountsStationsInside ==
    (WroteSes3d /\ Len(last.handed_events) = 1) =>
        IF ~InsideMesh(last.handed_config, last.handed_events[1])
        THEN last.raised /\ last.exc = "ValueError"
        ELSE LET recfile == last.files["recfile_" \o last.handed_config["event_tag"].s]
                 names == {recfile[j] : j \in 1..Len(recfile)}
             IN /\ ~last.raised
                /\ recfile[1] = IntStr(Cardinality(StationsInside))
                /\ Len(recfile) = 1 + 2 * Cardinality(StationsInside) + 2
                /\ \A i \in 1..Len(last.handed_stations) :
                       LET id == last.handed_stations[i]["id"].s
                       IN Len(SplitDot(id)) >= 2 =>
                              (NameLine(id) \in names <=> i \in StationsInside)

\* The backend returned a recfile of two entries for four stations, one of
\* the two on the corner of the mesh, the other two outside it.
C30_Witness ==
    /\ WroteSes3d /\ ~last.raised
    /\ Len(last.handed_stations) = 4
    /\ Cardinality(StationsInside) = 2
    /\ last.files["recfile_1"][1] = "2"
    /\ NameLine("A.B.C") = last.files["recfile_1"][2]

====
